---- MODULE Spec2Model ----
(***************************************************************************)
(* A model of taskit: the versioned save data and its upgrade chain        *)
(* (src/src/common.rs), the delta intents and apply (src/src/common.rs),   *)
(* the interactive commands that produce intents (src/src/input.rs) and    *)
(* the load / command / save sequence of main (src/src/main.rs).           *)
(*                                                                         *)
(* main.rs calls the method that common.rs names `extract` by its earlier  *)
(* name `upgrade` (same doc comment, same result type); the model of main  *)
(* follows main.rs step by step and uses common.rs for the data types.     *)
(***************************************************************************)
EXTENDS Integers, Sequences, FiniteSets, TLC

VARIABLES
    \* ---- SaveDataVersioned::extract (common.rs 318-328)
    xin,        \* the value extract was called on
    xself,      \* `self`, reassigned by the loop
    xsteps,     \* number of upgrade_once calls made so far
    xpc,        \* "call" | "loop" | "ret" | "panic"
    xret,       \* the returned pair [data, upgraded], NoRet before the return
    \* ---- Apply<Vec<DeltaItem>> for SaveData (common.rs 83-120)
    base,       \* the store before any intent was applied
    sd,         \* the store `self` that apply mutates (Panic once apply aborted)
    delta,      \* the Vec<DeltaItem> a command is building
    applied,    \* history: every intent handed to apply so far, in order
    apc,        \* "idle" | "run" | "saved" | "loaded" | "panic"
    file,       \* what the save step of the apply run left at the save path
    loaded,     \* what loading `file` gave: [data, upgraded]
    \* ---- main (main.rs 149-183), one entry per invocation of the program
    canon,      \* the inode at <data dir>/save.json, NoInode when there is no file
    tmpp,       \* the inode at <data dir>/new_save.json, NoInode when there is no file
    inode,      \* the content of each inode
    fd,         \* the inode each invocation's File::create handle writes to
    pc,         \* where each invocation is
    save_data,  \* each invocation's `save_data`
    upgraded,   \* the bool each invocation's load returned
    wroteDuring, \* history: who renamed a file in while this invocation was prompting
    \* ---- the amend command (input.rs 173-226) and the apply of its intents
    disk,       \* the store the save file holds
    snap,       \* the store amend_main was given: the one loaded at start
    rsel,       \* reverse_index: the entry selected, counted from the end
    adelta,     \* the Vec<DeltaItem> amend_main returned
    amc,        \* "start" | "select" | "amend" | "reload" | "done" | "panic" | "panic_apply"
    nother,     \* how many changes other invocations have saved meanwhile
    declined,   \* history: the user's last answer refused to create a category or tag
    \* ---- the dashboard: filter_main and State (output.rs 32-43, 140-175)
    dash_data,        \* the SaveData filter_main was given
    events,           \* State.events: the store's events, latest first
    scroll_position,  \* State.scroll_position: u16
    header_highlight, \* State.header_highlight: usize
    applied_filters,  \* State.applied_filters: Vec<Filter>
    editing_filter,   \* State.editing_filter: Option<Filter>
    dpc,              \* "off" | "run" | "halt" (the loop has ended) | "panic"
    dret,             \* what filter_main returned
    \* ---- SimpleTime's functions, called on their own (common.rs 44-77, 233-246)
    tin,        \* the arguments of the call
    tout,       \* what the call returned
    tpc         \* "off" | "call" | "done"

xvars == <<xin, xself, xsteps, xpc, xret>>
avars == <<base, sd, delta, applied, apc, file, loaded>>

mvars == <<canon, tmpp, inode, fd, pc, save_data, upgraded, wroteDuring>>

cvars == <<disk, snap, rsel, adelta, amc, nother, declined>>

dvars == <<dash_data, events, scroll_position, header_highlight, applied_filters,
           editing_filter, dpc, dret>>

tvars == <<tin, tout, tpc>>

vars == <<xvars, avars, mvars, cvars, dvars, tvars>>

-----------------------------------------------------------------------------
(* Values *)

\* SimpleTime { hour, minute }
SimpleTime(h, m) == [hour |-> h, minute |-> m]

\* Event { start_time, end_time, date, category, comments }
Event(s, e, d, c, t) ==
    [start_time |-> s, end_time |-> e, date |-> d, category |-> c, comments |-> t]

\* Categories { options: Vec<String> }
Categories(opts) == [options |-> opts]

\* HashMap::default()
EmptyMap == [k \in {} |-> <<>>]

EvWork == Event(SimpleTime(9, 0), SimpleTime(17, 30), 1, "a", "x")
EvLate == Event(SimpleTime(23, 0), SimpleTime(1, 0), 2, "b", "y #t")
EvSame == Event(SimpleTime(7, 0), SimpleTime(7, 0), 2, "a", "")
EvNap == Event(SimpleTime(13, 0), SimpleTime(13, 20), 1, "c", "y #t")

\* The data the inputs are drawn from.
CatSeqs == {<<>>, <<"a">>, <<"b", "a">>}
ArchSeqs == {<<>>, <<"c">>, <<"c", "c">>}
EvSeqs == {<<>>, <<EvWork>>, <<EvWork, EvLate>>, <<EvLate, EvWork>>}
TagSeqs == {<<>>, <<"t">>, <<"u", "t">>}
TagMaps == {EmptyMap, [k \in {"a"} |-> <<"t">>], [k \in {"a", "b"} |-> IF k = "a" THEN <<"t", "u">> ELSE <<>>]}
NoteMaps == {EmptyMap, [k \in {1} |-> "n"], [k \in {1, 2} |-> IF k = 1 THEN "n" ELSE ""]}

\* SaveDataV1 .. SaveDataV4
SaveDataV1(c, ev) == [categories |-> c, events |-> ev]
SaveDataV2(c, a, ev) == [categories |-> c, archived_categories |-> a, events |-> ev]
SaveDataV3(c, a, t, m, ev) ==
    [categories |-> c, archived_categories |-> a, tags |-> t, tag_map |-> m, events |-> ev]
SaveDataV4(c, a, t, m, ev, n) ==
    [categories |-> c, archived_categories |-> a, tags |-> t, tag_map |-> m,
     events |-> ev, daily_notes |-> n]

\* The fields each revision's struct declares.
FieldsOf(n) ==
    CASE n = 1 -> {"categories", "events"}
      [] n = 2 -> {"categories", "archived_categories", "events"}
      [] n = 3 -> {"categories", "archived_categories", "tags", "tag_map", "events"}
      [] n = 4 -> {"categories", "archived_categories", "tags", "tag_map", "events",
                   "daily_notes"}

\* enum SaveDataVersioned { V1(..), V2(..), V3(..), V4(..) }
Versioned(n, d) == [ver |-> n, data |-> d]

\* The revision SaveData is an alias of: pub type SaveData = SaveDataV4
Latest == 4

\* impl Default for SaveDataV4 (derived)
DefaultSaveData ==
    SaveDataV4(Categories(<<>>), Categories(<<>>), <<>>, EmptyMap, <<>>, EmptyMap)

\* impl Default for SaveDataVersioned
DefaultVersioned == Versioned(4, DefaultSaveData)

AllV1 == {SaveDataV1(Categories(c), ev) : c \in CatSeqs, ev \in EvSeqs}
AllV2 == {SaveDataV2(Categories(c), Categories(a), ev) :
            c \in CatSeqs, a \in ArchSeqs, ev \in EvSeqs}
AllV3 == {SaveDataV3(d.categories, d.archived_categories, t, m, d.events) :
            d \in AllV2, t \in TagSeqs, m \in TagMaps}
AllV4 == {SaveDataV4(d.categories, d.archived_categories, d.tags, d.tag_map, d.events, n) :
            d \in AllV3, n \in NoteMaps}

VersionedInputs ==
    {Versioned(1, d) : d \in AllV1} \cup {Versioned(2, d) : d \in AllV2}
    \cup {Versioned(3, d) : d \in AllV3} \cup {Versioned(4, d) : d \in AllV4}

-----------------------------------------------------------------------------
(* The upgrade chain *)

\* impl Upgrade for SaveDataV1
UpgradeV1(d) ==
    [categories |-> d.categories,
     archived_categories |-> Categories(<<>>),
     events |-> d.events]

\* impl Upgrade for SaveDataV2
UpgradeV2(d) ==
    [categories |-> d.categories,
     archived_categories |-> d.archived_categories,
     tags |-> <<>>,
     tag_map |-> EmptyMap,
     events |-> d.events]

\* An upgrade that defaults tag_map instead of carrying it over.
UpgradeV3_DropTagMap(d) ==
    [categories |-> d.categories,
     archived_categories |-> d.archived_categories,
     tags |-> d.tags,
     tag_map |-> EmptyMap,
     events |-> d.events,
     daily_notes |-> EmptyMap]

\* impl Upgrade for SaveDataV3
UpgradeV3(d) ==
    [categories |-> d.categories,
     archived_categories |-> d.archived_categories,
     tags |-> d.tags,
     tag_map |-> d.tag_map,
     events |-> d.events,
     daily_notes |-> EmptyMap]

\* The value a panic!() leaves in place of a result.
Panic == [panic |-> TRUE]

\* outdated as it was before V4 existed: V3 still counts as the latest revision.
outdated_V3Latest(v) == IF v.ver >= 3 THEN FALSE ELSE TRUE

\* SaveDataVersioned::outdated
outdated(v) == IF v.ver = 4 THEN FALSE ELSE TRUE

\* SaveDataVersioned::upgrade_once (with the From impls that tag the result)
upgrade_once(v) ==
    CASE v.ver = 1 -> Versioned(2, UpgradeV1(v.data))
      [] v.ver = 2 -> Versioned(3, UpgradeV2(v.data))
      [] v.ver = 3 -> Versioned(4, UpgradeV3(v.data))
      [] v.ver = 4 -> Panic

\* SaveDataVersioned::as_latest
as_latest(v) == IF v # Panic /\ v.ver = 4 THEN v.data ELSE Panic

\* No value returned yet.
NoRet == [none |-> TRUE]

\* extract, `if let Self::V4(data) = self { (data, false) }`
ExtractCurrent ==
    /\ xpc = "call"
    /\ xself.ver = 4
    /\ xret' = [data |-> xself.data, upgraded |-> FALSE]
    /\ xpc' = "ret"
    /\ UNCHANGED <<xin, xself, xsteps, avars, mvars, cvars, dvars, tvars>>

\* extract, one iteration of `while self.outdated() { self = self.upgrade_once(); }`
ExtractUpgradeOnce ==
    /\ \/ xpc = "call" /\ xself.ver # 4
       \/ xpc = "loop"
    /\ outdated(xself)
    /\ xself' = upgrade_once(xself)
    /\ xsteps' = xsteps + 1
    /\ xpc' = IF upgrade_once(xself) = Panic THEN "panic" ELSE "loop"
    /\ UNCHANGED <<xin, xret, avars, mvars, cvars, dvars, tvars>>

\* The upgrading branch returning `false` like the other branch.
ExtractUpgraded_False ==
    /\ xpc = "loop"
    /\ ~outdated(xself)
    /\ xret' = [data |-> as_latest(xself), upgraded |-> FALSE]
    /\ xpc' = IF as_latest(xself) = Panic THEN "panic" ELSE "ret"
    /\ UNCHANGED <<xin, xself, xsteps, avars, mvars, cvars, dvars, tvars>>

\* extract, the loop's exit and `(self.as_latest(), true)`
ExtractUpgraded ==
    /\ xpc = "loop"
    /\ ~outdated(xself)
    /\ xret' = [data |-> as_latest(xself), upgraded |-> TRUE]
    /\ xpc' = IF as_latest(xself) = Panic THEN "panic" ELSE "ret"
    /\ UNCHANGED <<xin, xself, xsteps, avars, mvars, cvars, dvars, tvars>>

\* SaveDataVersioned::extract as a function of its argument
RECURSIVE UpgradeLoop(_)
UpgradeLoop(v) == IF outdated(v) THEN UpgradeLoop(upgrade_once(v)) ELSE v

extract(v) ==
    IF v.ver = 4
    THEN [data |-> v.data, upgraded |-> FALSE]
    ELSE [data |-> as_latest(UpgradeLoop(v)), upgraded |-> TRUE]

-----------------------------------------------------------------------------
(* The save file: one JSON document holding the tagged union *)

\* The variant names serde writes as the document's single key.
TagOf(n) == CASE n = 1 -> "V1" [] n = 2 -> "V2" [] n = 3 -> "V3" [] n = 4 -> "V4"

\* From<SaveDataV4> for SaveDataVersioned tagging the value as V3.
FromSaveData_AsV3(d) == Versioned(3, d)

\* impl From<SaveDataV4> for SaveDataVersioned
FromSaveData(d) == Versioned(4, d)

\* serde_json::to_vec(&SaveDataVersioned): {"Vn": {field: value, ..}}
to_vec(v) == [tag |-> TagOf(v.ver), body |-> v.data]

\* A file's content: no bytes, a proper prefix of a document, or a whole one.
EmptyContent == [st |-> "empty", doc |-> [tag |-> "", body |-> <<>>]]
Partial(doc) == [st |-> "partial", doc |-> doc]
Full(doc) == [st |-> "full", doc |-> doc]

\* No file at the path.
NoFile == [st |-> "absent", doc |-> [tag |-> "", body |-> <<>>]]

\* Whether serde_json::from_str::<SaveDataVersioned> accepts the content: a
\* proper prefix of a JSON object is not JSON, and the key must name a variant.
Parses(content) ==
    /\ content.st = "full"
    /\ content.doc.tag \in {TagOf(n) : n \in 1..4}
    /\ \A n \in 1..4 : content.doc.tag = TagOf(n) => FieldsOf(n) \subseteq DOMAIN content.doc.body

\* serde_json::from_str::<SaveDataVersioned>: the key picks the variant, whose
\* declared fields are read by name (other keys are ignored).
from_str(content) ==
    LET n == CHOOSE k \in 1..4 : content.doc.tag = TagOf(k)
    IN  Versioned(n, [f \in FieldsOf(n) |-> content.doc.body[f]])

\* main's load: the file's data and whether it was upgraded, the default when
\* the file cannot be opened, a panic when it does not parse.
LoadFile(content) ==
    IF content.st = "absent"
    THEN [data |-> DefaultSaveData, upgraded |-> FALSE]
    ELSE IF Parses(content) THEN extract(from_str(content)) ELSE Panic

XIdle ==
    /\ xin = DefaultVersioned
    /\ xself = DefaultVersioned
    /\ xsteps = 0
    /\ xpc = "idle"
    /\ xret = NoRet

AIdle ==
    /\ base = DefaultSaveData
    /\ sd = DefaultSaveData
    /\ delta = <<>>
    /\ applied = <<>>
    /\ apc = "idle"
    /\ file = NoFile
    /\ loaded = NoRet

\* The invocations, the inodes they can create, and the one of a file found at start.
Procs == {"A", "B", "C"}
InodeIds == {"f0"} \cup Procs
NoInode == "none"

MIdle ==
    /\ canon = NoInode
    /\ tmpp = NoInode
    /\ inode = [i \in InodeIds |-> NoFile]
    /\ fd = [p \in Procs |-> NoInode]
    /\ pc = [p \in Procs |-> "idle"]
    /\ save_data = [p \in Procs |-> DefaultSaveData]
    /\ upgraded = [p \in Procs |-> FALSE]
    /\ wroteDuring = [p \in Procs |-> {}]

CIdle ==
    /\ disk = DefaultSaveData
    /\ snap = DefaultSaveData
    /\ rsel = 0
    /\ adelta = <<>>
    /\ amc = "idle"
    /\ nother = 0
    /\ declined = FALSE

\* NoFilter: the None of Option<Filter>
NoFilter == [kind |-> "None"]

DIdle ==
    /\ dash_data = DefaultSaveData
    /\ events = <<>>
    /\ scroll_position = 0
    /\ header_highlight = 0
    /\ applied_filters = <<>>
    /\ editing_filter = NoFilter
    /\ dpc = "off"
    /\ dret = NoRet

\* No call of SimpleTime's functions on their own.
TIdle ==
    /\ tin = NoRet
    /\ tout = NoRet
    /\ tpc = "off"

ExtractInit ==
    /\ TIdle
    /\ AIdle
    /\ MIdle
    /\ CIdle
    /\ DIdle
    /\ xin \in VersionedInputs
    /\ xself = xin
    /\ xsteps = 0
    /\ xpc = "call"
    /\ xret = NoRet

ExtractNext == ExtractCurrent \/ ExtractUpgradeOnce \/ ExtractUpgraded

SpecExtract == ExtractInit /\ [][ExtractNext]_vars

-----------------------------------------------------------------------------
(* The delta model: DeltaItem and apply *)

\* enum DeltaItem
AddCategory(c) == [kind |-> "AddCategory", category |-> c]
RenameCategory(o, n) == [kind |-> "RenameCategory", old |-> o, new |-> n]
ArchiveCategory(c) == [kind |-> "ArchiveCategory", category |-> c]
AddEvent(e) == [kind |-> "AddEvent", event |-> e]
ChangeEvent(i, e) == [kind |-> "ChangeEvent", index |-> i, new_event |-> e]
AddTag(t) == [kind |-> "AddTag", tag |-> t]
TagCategory(c, t) == [kind |-> "TagCategory", category |-> c, tag |-> t]
SetDailyNote(d, n) == [kind |-> "SetDailyNote", date |-> d, note |-> n]

\* Vec::contains
Contains(v, x) == \E i \in 1..Len(v) : v[i] = x

\* Vec::retain(|x| *x != c)
RetainNot(v, c) == SelectSeq(v, LAMBDA x : x # c)

\* HashMap::insert: the key's previous value, if any, is replaced
MapInsert(m, k, val) == [x \in (DOMAIN m) \cup {k} |-> IF x = k THEN val ELSE m[x]]

\* AddCategory that pushes whether or not the name is there.
ApplyAddCategory_Always(s, category) ==
    [s EXCEPT !.categories.options = Append(@, category)]

\* common.rs 86-90: DeltaItem::AddCategory
ApplyAddCategory(s, category) ==
    IF ~Contains(s.categories.options, category)
    THEN [s EXCEPT !.categories.options = Append(@, category)]
    ELSE s

\* AddEvent that puts the event in front.
ApplyAddEvent_Front(s, event) == [s EXCEPT !.events = <<event>> \o @]

\* common.rs 92: DeltaItem::AddEvent, `self.events.push(event)`
ApplyAddEvent(s, event) == [s EXCEPT !.events = Append(@, event)]

\* ChangeEvent that replaces the first event whatever the index.
ApplyChangeEvent_First(s, index, new_event) ==
    IF index < Len(s.events)
    THEN [s EXCEPT !.events[1] = new_event]
    ELSE Panic

\* common.rs 93: DeltaItem::ChangeEvent, `self.events[index] = new_event`;
\* the index is 0-based and indexing out of bounds panics
ApplyChangeEvent(s, index, new_event) ==
    IF index < Len(s.events)
    THEN [s EXCEPT !.events[index + 1] = new_event]
    ELSE Panic

\* ArchiveCategory that archives only a name that is active.
ApplyArchiveCategory_IfActive(s, category) ==
    IF Contains(s.categories.options, category)
    THEN [s EXCEPT !.categories.options = RetainNot(@, category),
                   !.archived_categories.options = Append(@, category)]
    ELSE s

\* common.rs 94-97: DeltaItem::ArchiveCategory
ApplyArchiveCategory(s, category) ==
    [s EXCEPT !.categories.options = RetainNot(@, category),
              !.archived_categories.options = Append(@, category)]

\* AddTag that leaves the registry as it is.
ApplyAddTag_Forget(s, tag) == s

\* common.rs 98: DeltaItem::AddTag
ApplyAddTag(s, tag) ==
    IF ~Contains(s.tags, tag) THEN [s EXCEPT !.tags = Append(@, tag)] ELSE s

\* common.rs 99-106: DeltaItem::TagCategory
ApplyTagCategory(s, category, tag) ==
    LET m == IF category \notin DOMAIN s.tag_map
             THEN MapInsert(s.tag_map, category, <<>>)
             ELSE s.tag_map
    IN  IF ~Contains(m[category], tag)
        THEN [s EXCEPT !.tag_map = MapInsert(m, category, Append(m[category], tag))]
        ELSE [s EXCEPT !.tag_map = m]

\* SetDailyNote that keeps a note that is already there.
ApplySetDailyNote_KeepFirst(s, date, note) ==
    IF date \in DOMAIN s.daily_notes
    THEN s
    ELSE [s EXCEPT !.daily_notes = MapInsert(@, date, note)]

\* common.rs 107: DeltaItem::SetDailyNote
ApplySetDailyNote(s, date, note) ==
    [s EXCEPT !.daily_notes = MapInsert(@, date, note)]

\* impl Apply<DeltaItem> for SaveData
ApplyItem(s, d) ==
    CASE d.kind = "AddCategory" -> ApplyAddCategory(s, d.category)
      [] d.kind = "RenameCategory" -> Panic
      [] d.kind = "AddEvent" -> ApplyAddEvent(s, d.event)
      [] d.kind = "ChangeEvent" -> ApplyChangeEvent(s, d.index, d.new_event)
      [] d.kind = "ArchiveCategory" -> ApplyArchiveCategory(s, d.category)
      [] d.kind = "AddTag" -> ApplyAddTag(s, d.tag)
      [] d.kind = "TagCategory" -> ApplyTagCategory(s, d.category, d.tag)
      [] d.kind = "SetDailyNote" -> ApplySetDailyNote(s, d.date, d.note)

\* A loop that returns after its first intent.
ApplyVec_FirstOnly(s, ds) == IF ds = <<>> THEN s ELSE ApplyItem(s, Head(ds))

\* impl Apply<Vec<DeltaItem>> for SaveData: `for delta in delta { self.apply(delta)?; }`
RECURSIVE ApplyVec(_, _)
ApplyVec(s, ds) ==
    IF ds = <<>>
    THEN s
    ELSE LET r == ApplyItem(s, Head(ds))
         IN  IF r = Panic THEN Panic ELSE ApplyVec(r, Tail(ds))

\* The intents the commands are given to produce.
DeltaPool ==
    {AddCategory("a"), AddCategory("b"), ArchiveCategory("a"),
     AddEvent(EvWork), AddEvent(EvLate),
     ChangeEvent(0, EvSame), ChangeEvent(1, EvSame),
     AddTag("t"), TagCategory("a", "t"), TagCategory("b", "u"),
     SetDailyNote(1, "n"), SetDailyNote(1, "m"), SetDailyNote(2, "k"),
     RenameCategory("a", "b")}

\* A store with something in every collection.
FilledSaveData ==
    SaveDataV4(Categories(<<"a">>), Categories(<<"c">>), <<"t">>,
               [k \in {"a"} |-> <<"t">>], <<EvWork, EvLate>>, [k \in {1} |-> "n"])

\* The stores apply starts from.
BaseStores == {DefaultSaveData, FilledSaveData}

\* Most intents handed to apply in one run.
MaxIntents == 3

\* A command pushes one intent: `delta.push(DeltaItem::..)`
Produce(d) ==
    /\ apc \in {"idle", "run"}
    /\ Len(applied) + Len(delta) < MaxIntents
    /\ delta' = Append(delta, d)
    /\ UNCHANGED <<base, sd, applied, apc, file, loaded, xvars, mvars, cvars, dvars, tvars>>

\* `save_data.apply(delta)` with the intents produced so far
ApplyDelta ==
    /\ apc \in {"idle", "run"}
    /\ sd' = ApplyVec(sd, delta)
    /\ applied' = applied \o delta
    /\ delta' = <<>>
    /\ apc' = IF ApplyVec(sd, delta) = Panic THEN "panic" ELSE "run"
    /\ UNCHANGED <<base, file, loaded, xvars, mvars, cvars, dvars, tvars>>

\* main's save of the store apply left: tag it, serialize it, put it at the path
SaveStore ==
    /\ apc = "run"
    /\ delta = <<>>
    /\ file' = Full(to_vec(FromSaveData(sd)))
    /\ apc' = "saved"
    /\ UNCHANGED <<base, sd, delta, applied, loaded, xvars, mvars, cvars, dvars, tvars>>

\* the next invocation's load of that file
LoadStore ==
    /\ apc = "saved"
    /\ loaded' = LoadFile(file)
    /\ apc' = "loaded"
    /\ UNCHANGED <<base, sd, delta, applied, file, xvars, mvars, cvars, dvars, tvars>>

ApplyInit ==
    /\ XIdle
    /\ TIdle
    /\ MIdle
    /\ CIdle
    /\ DIdle
    /\ base \in BaseStores
    /\ sd = base
    /\ delta = <<>>
    /\ applied = <<>>
    /\ apc = "idle"
    /\ file = NoFile
    /\ loaded = NoRet

ApplyNext == (\E d \in DeltaPool : Produce(d)) \/ ApplyDelta \/ SaveStore \/ LoadStore

SpecApply == ApplyInit /\ [][ApplyNext]_vars

-----------------------------------------------------------------------------
(* main: load, command, save (main.rs 149-183) *)

\* What is at save.json.
CanonContent == IF canon = NoInode THEN NoFile ELSE inode[canon]

\* The document main writes for an invocation's save_data (main.rs 177, 180).
DocOf(p) == to_vec(FromSaveData(save_data[p]))

\* main.rs 160-169: open, read, parse, upgrade; the default when there is no file
Load(p) ==
    /\ pc[p] = "start"
    /\ LoadFile(CanonContent) # Panic
    /\ save_data' = [save_data EXCEPT ![p] = LoadFile(CanonContent).data]
    /\ upgraded' = [upgraded EXCEPT ![p] = LoadFile(CanonContent).upgraded]
    /\ pc' = [pc EXCEPT ![p] = "interact"]
    /\ UNCHANGED <<canon, tmpp, inode, fd, wroteDuring, xvars, avars, cvars, dvars, tvars>>

\* main.rs 165: `serde_json::from_str(..).unwrap()` on a file that is not a document
LoadPanics(p) ==
    /\ pc[p] = "start"
    /\ LoadFile(CanonContent) = Panic
    /\ pc' = [pc EXCEPT ![p] = "panic"]
    /\ UNCHANGED <<canon, tmpp, inode, fd, save_data, upgraded, wroteDuring, xvars, avars, cvars, dvars, tvars>>

\* record_main (main.rs 185-202) with the answers the user gave: the event's
\* fields and, for a category not in the list, `create`
RecordEffect(s, ev, create) ==
    LET withCat == IF ~Contains(s.categories.options, ev.category)
                   THEN [s EXCEPT !.categories.options = Append(@, ev.category)]
                   ELSE s
    IN  [withCat EXCEPT !.events = Append(@, ev)]

Record(p, ev, create) ==
    /\ pc[p] = "interact"
    /\ Contains(save_data[p].categories.options, ev.category) \/ create
    /\ save_data' = [save_data EXCEPT ![p] = RecordEffect(save_data[p], ev, create)]
    /\ pc' = [pc EXCEPT ![p] = "create"]
    /\ UNCHANGED <<canon, tmpp, inode, fd, upgraded, wroteDuring, xvars, avars, cvars, dvars, tvars>>

\* record_main, main.rs 195-197: creation declined, the prompts start over
RecordDeclined(p, ev) ==
    /\ pc[p] = "interact"
    /\ ~Contains(save_data[p].categories.options, ev.category)
    /\ UNCHANGED vars

\* main.rs 173-174 and 204-206: stopwatch, or no subcommand: todo!()
Todo(p) ==
    /\ pc[p] = "interact"
    /\ pc' = [pc EXCEPT ![p] = "panic"]
    /\ UNCHANGED <<canon, tmpp, inode, fd, save_data, upgraded, wroteDuring, xvars, avars, cvars, dvars, tvars>>

\* File::create on save.json itself instead of on new_save.json.
Create_InPlace(p) ==
    /\ pc[p] = "create"
    /\ IF canon = NoInode
       THEN /\ canon' = p
            /\ inode' = [inode EXCEPT ![p] = EmptyContent]
            /\ fd' = [fd EXCEPT ![p] = p]
       ELSE /\ canon' = canon
            /\ inode' = [inode EXCEPT ![canon] = EmptyContent]
            /\ fd' = [fd EXCEPT ![p] = canon]
    /\ pc' = [pc EXCEPT ![p] = "write"]
    /\ UNCHANGED <<tmpp, save_data, upgraded, wroteDuring, xvars, avars, cvars, dvars, tvars>>

\* main.rs 178-179: File::create(new_save.json) makes the file or truncates the
\* one that is there
Create(p) ==
    /\ pc[p] = "create"
    /\ IF tmpp = NoInode
       THEN /\ tmpp' = p
            /\ inode' = [inode EXCEPT ![p] = EmptyContent]
            /\ fd' = [fd EXCEPT ![p] = p]
       ELSE /\ tmpp' = tmpp
            /\ inode' = [inode EXCEPT ![tmpp] = EmptyContent]
            /\ fd' = [fd EXCEPT ![p] = tmpp]
    /\ pc' = [pc EXCEPT ![p] = "write"]
    /\ UNCHANGED <<canon, save_data, upgraded, wroteDuring, xvars, avars, cvars, dvars, tvars>>

\* main.rs 180: write_all has written some of the bytes
WriteStart(p) ==
    /\ pc[p] = "write"
    /\ inode' = [inode EXCEPT ![fd[p]] = Partial(DocOf(p))]
    /\ pc' = [pc EXCEPT ![p] = "writing"]
    /\ UNCHANGED <<canon, tmpp, fd, save_data, upgraded, wroteDuring, xvars, avars, cvars, dvars, tvars>>

\* main.rs 180: write_all has written the rest. When another invocation has
\* truncated or written the same file meanwhile the bytes may not add up to a
\* document.
WriteEnd(p) ==
    /\ pc[p] = "writing"
    /\ \E c \in IF inode[fd[p]] = Partial(DocOf(p))
                THEN {Full(DocOf(p))}
                ELSE {Full(DocOf(p)), Partial(DocOf(p))} :
          inode' = [inode EXCEPT ![fd[p]] = c]
    /\ pc' = [pc EXCEPT ![p] = "rename"]
    /\ UNCHANGED <<canon, tmpp, fd, save_data, upgraded, wroteDuring, xvars, avars, cvars, dvars, tvars>>

\* main.rs 181: rename(new_save.json, save.json); the file replaced is unlinked
Rename(p) ==
    /\ pc[p] = "rename"
    /\ tmpp # NoInode
    /\ canon' = tmpp
    /\ tmpp' = NoInode
    /\ inode' = IF canon = NoInode THEN inode ELSE [inode EXCEPT ![canon] = NoFile]
    /\ pc' = [pc EXCEPT ![p] = "done"]
    /\ wroteDuring' = [a \in Procs |->
            IF a # p /\ pc[a] = "interact" THEN wroteDuring[a] \cup {p} ELSE wroteDuring[a]]
    /\ UNCHANGED <<fd, save_data, upgraded, xvars, avars, cvars, dvars, tvars>>

\* main.rs 181: `rename(..).unwrap()` when new_save.json is no longer there
RenameFails(p) ==
    /\ pc[p] = "rename"
    /\ tmpp = NoInode
    /\ pc' = [pc EXCEPT ![p] = "panic"]
    /\ UNCHANGED <<canon, tmpp, inode, fd, save_data, upgraded, wroteDuring, xvars, avars, cvars, dvars, tvars>>

\* The invocation is killed between two steps; what it wrote stays as it is.
Crash(p) ==
    /\ pc[p] \in {"interact", "create", "write", "writing", "rename"}
    /\ pc' = [pc EXCEPT ![p] = "crashed"]
    /\ UNCHANGED <<canon, tmpp, inode, fd, save_data, upgraded, wroteDuring, xvars, avars, cvars, dvars, tvars>>

\* The events and the answers the user is given to enter.
RecordEvents == {EvWork, EvLate}

\* The save files an invocation may find: none, one of the current revision,
\* one of the first revision.
InitContents ==
    {NoFile,
     Full(to_vec(Versioned(4, FilledSaveData))),
     Full(to_vec(Versioned(1, SaveDataV1(Categories(<<"a">>), <<EvWork>>))))}

MainInit ==
    /\ XIdle
    /\ TIdle
    /\ AIdle
    /\ CIdle
    /\ DIdle
    /\ \E c \in InitContents :
          /\ canon = IF c = NoFile THEN NoInode ELSE "f0"
          /\ inode = [i \in InodeIds |-> IF i = "f0" THEN c ELSE NoFile]
    /\ tmpp = NoInode
    /\ fd = [p \in Procs |-> NoInode]
    /\ pc = [p \in Procs |-> "start"]
    /\ save_data = [p \in Procs |-> DefaultSaveData]
    /\ upgraded = [p \in Procs |-> FALSE]
    /\ wroteDuring = [p \in Procs |-> {}]

\* Invocations that may overlap in time.
MainNext ==
    \E p \in Procs :
        \/ Load(p)
        \/ LoadPanics(p)
        \/ \E ev \in RecordEvents, create \in BOOLEAN : Record(p, ev, create)
        \/ \E ev \in RecordEvents : RecordDeclined(p, ev)
        \/ Todo(p)
        \/ Create(p)
        \/ WriteStart(p)
        \/ WriteEnd(p)
        \/ Rename(p)
        \/ RenameFails(p)
        \/ Crash(p)

SpecMain == MainInit /\ [][MainNext]_vars

\* No other invocation is between its load and its end.
Quiet(p) == \A q \in Procs \ {p} : pc[q] \in {"start", "done", "panic", "crashed"}

\* An invocation started when no other one is running.
SeqLoad(p) == Quiet(p) /\ Load(p)

\* Invocations one at a time, each of which may be killed at any step.
SeqNext ==
    \E p \in Procs :
        \/ SeqLoad(p)
        \/ \E ev \in RecordEvents, create \in BOOLEAN : Record(p, ev, create)
        \/ \E ev \in RecordEvents : RecordDeclined(p, ev)
        \/ Todo(p)
        \/ Create(p)
        \/ WriteStart(p)
        \/ WriteEnd(p)
        \/ Rename(p)
        \/ Crash(p)

SpecSeq == MainInit /\ [][SeqNext]_vars

-----------------------------------------------------------------------------
(* The amend command (input.rs 173-226), its intents applied to the store     *)
(* that is read again after the prompts, while other invocations save         *)

\* The index counted from the front.
AmendIndex_Forward(len, reverse_index) == reverse_index

\* amend_main, input.rs 187: `save_data.events.len() - 1 - reverse_index`
AmendIndex(len, reverse_index) == len - 1 - reverse_index

\* get_description_tags (input.rs 47-49) on the descriptions the events use:
\* the words that start with '#', without it
get_description_tags(text) == IF text = "y #t" THEN <<"t">> ELSE <<>>

\* Option<T>
None == [is_some |-> FALSE]
Some(v) == [is_some |-> TRUE, val |-> v]

\* validate_description_tags that stops asking at a refusal and returns what
\* it has so far.
validate_description_tags_Partial(tags, valid_tags, create) ==
    LET missing == SelectSeq(tags, LAMBDA t : ~Contains(valid_tags, t))
    IN  IF missing # <<>> /\ ~create
        THEN Some(<<>>)
        ELSE Some([i \in 1..Len(missing) |-> AddTag(missing[i])])

\* validate_description_tags (input.rs 52-67): an AddTag for every tag that is
\* not registered, or None when the user refuses to create one (`create` is
\* the answer; the texts used here hold at most one tag)
validate_description_tags(tags, valid_tags, create) ==
    LET missing == SelectSeq(tags, LAMBDA t : ~Contains(valid_tags, t))
    IN  IF missing # <<>> /\ ~create
        THEN None
        ELSE Some([i \in 1..Len(missing) |-> AddTag(missing[i])])

\* the load at the start of the invocation
AmendLoad ==
    /\ amc = "start"
    /\ snap' = disk
    /\ amc' = "select"
    /\ UNCHANGED <<disk, rsel, adelta, nother, declined, xvars, avars, mvars, dvars, tvars>>

\* dispatch_amend (input.rs 173-182): the user selects one of the entries,
\* listed latest first
DispatchAmend(r) ==
    /\ amc = "select"
    /\ r < Len(snap.events)
    /\ rsel' = r
    /\ amc' = "amend"
    /\ UNCHANGED <<disk, snap, adelta, nother, declined, xvars, avars, mvars, dvars, tvars>>

\* with no entry there is nothing to select, and `len() - 1` of amend_main
\* (input.rs 187) underflows: the invocation aborts
AmendNoEvents ==
    /\ amc = "select"
    /\ Len(snap.events) = 0
    /\ amc' = "panic"
    /\ UNCHANGED <<disk, snap, rsel, adelta, nother, declined, xvars, avars, mvars, dvars, tvars>>

\* The answers given about an event refuse a creation: of its category, which
\* is asked first, or of a tag of its text.
Refused(s, ev, create, createTags) ==
    \/ ~Contains(s.categories.options, ev.category) /\ ~create
    \/ /\ \E i \in 1..Len(get_description_tags(ev.comments)) :
             ~Contains(s.tags, get_description_tags(ev.comments)[i])
       /\ ~createTags

\* The part record_main, stopwatch_main and amend_main share (input.rs 81-95,
\* 146-161, 202-216): the intents that create what the event needs, None when
\* the category is refused, a panic when a tag is (`.unwrap()` of None)
CreationDelta(s, ev, create, createTags) ==
    LET newTags == validate_description_tags(get_description_tags(ev.comments), s.tags, createTags)
        catDelta == IF ~Contains(s.categories.options, ev.category)
                    THEN <<AddCategory(ev.category)>>
                    ELSE <<>>
    IN  IF ~Contains(s.categories.options, ev.category) /\ ~create
        THEN None
        ELSE IF ~newTags.is_some THEN Panic
        ELSE Some(catDelta \o newTags.val)

\* amend_main (input.rs 185-226) with the answers the user gave
AmendMain(ev, create, createTags) ==
    /\ amc = "amend"
    /\ LET index == AmendIndex(Len(snap.events), rsel)
           made == CreationDelta(snap, ev, create, createTags)
       IN  IF made = None
           THEN \* input.rs 211-212: "Cannot update event with nonexistent category."
                /\ adelta' = <<>>
                /\ amc' = "reload"
           ELSE IF made = Panic
           THEN /\ adelta' = adelta
                /\ amc' = "panic"
           ELSE /\ adelta' = Append(made.val, ChangeEvent(index, ev))
                /\ amc' = "reload"
    /\ declined' = Refused(snap, ev, create, createTags)
    /\ UNCHANGED <<disk, snap, rsel, nother, xvars, avars, mvars, dvars, tvars>>

\* Most changes other invocations save during one amend.
MaxOther == 2

\* another invocation records an event and saves
OtherAppend(ev) ==
    /\ amc \in {"select", "amend", "reload"}
    /\ nother < MaxOther
    /\ disk' = ApplyItem(disk, AddEvent(ev))
    /\ nother' = nother + 1
    /\ UNCHANGED <<snap, rsel, adelta, amc, declined, xvars, avars, mvars, dvars, tvars>>

\* another invocation amends an entry and saves
OtherChange(i, ev) ==
    /\ amc \in {"select", "amend", "reload"}
    /\ nother < MaxOther
    /\ i < Len(disk.events)
    /\ disk.events[i + 1] # ev
    /\ disk' = ApplyItem(disk, ChangeEvent(i, ev))
    /\ nother' = nother + 1
    /\ UNCHANGED <<snap, rsel, adelta, amc, declined, xvars, avars, mvars, dvars, tvars>>

\* the store is read again, the intents are applied to it and it is saved
ReloadApply ==
    /\ amc = "reload"
    /\ IF ApplyVec(disk, adelta) = Panic
       THEN /\ amc' = "panic_apply"
            /\ disk' = disk
       ELSE /\ amc' = "done"
            /\ disk' = ApplyVec(disk, adelta)
    /\ UNCHANGED <<snap, rsel, adelta, nother, declined, xvars, avars, mvars, dvars, tvars>>

\* The stores the amend starts from, and the events the user turns an entry into.
AmendStores ==
    {DefaultSaveData, FilledSaveData, [FilledSaveData EXCEPT !.events = <<EvWork>>]}
AmendEvents == {EvSame, EvLate}

AmendInit ==
    /\ XIdle
    /\ TIdle
    /\ AIdle
    /\ MIdle
    /\ DIdle
    /\ disk \in AmendStores
    /\ snap = DefaultSaveData
    /\ rsel = 0
    /\ adelta = <<>>
    /\ amc = "start"
    /\ nother = 0
    /\ declined = FALSE

AmendNext ==
    \/ AmendLoad
    \/ \E r \in 0..1 : DispatchAmend(r)
    \/ AmendNoEvents
    \/ \E ev \in AmendEvents, create \in BOOLEAN, createTags \in BOOLEAN :
            AmendMain(ev, create, createTags)
    \/ \E ev \in RecordEvents : OtherAppend(ev)
    \/ \E i \in 0..3, ev \in AmendEvents : OtherChange(i, ev)
    \/ ReloadApply

SpecAmend == AmendInit /\ [][AmendNext]_vars

-----------------------------------------------------------------------------
(* The other commands that ask before they create (input.rs 69-171, 236-262) *)

\* record_main (input.rs 69-105); a refused category starts the prompts over
\* with a new, empty delta (`return record_main(save_data)`)
RecordMain(ev, create, createTags) ==
    /\ amc = "select"
    /\ LET made == CreationDelta(snap, ev, create, createTags)
       IN  IF made = None
           THEN /\ adelta' = <<>>
                /\ amc' = amc
           ELSE IF made = Panic
           THEN /\ adelta' = adelta
                /\ amc' = "panic"
           ELSE /\ adelta' = Append(made.val, AddEvent(ev))
                /\ amc' = "reload"
    /\ declined' = Refused(snap, ev, create, createTags)
    /\ UNCHANGED <<disk, snap, rsel, nother, xvars, avars, mvars, dvars, tvars>>

\* stopwatch_main (input.rs 107-171) once the timer was stopped with Enter; a
\* refused category is asked for again (the loop of 141-157)
StopwatchMain(ev, create, createTags) ==
    /\ amc = "select"
    /\ LET made == CreationDelta(snap, ev, create, createTags)
       IN  IF made = None
           THEN /\ adelta' = <<>>
                /\ amc' = amc
           ELSE IF made = Panic
           THEN /\ adelta' = adelta
                /\ amc' = "panic"
           ELSE /\ adelta' = Append(made.val, AddEvent(ev))
                /\ amc' = "reload"
    /\ declined' = Refused(snap, ev, create, createTags)
    /\ UNCHANGED <<disk, snap, rsel, nother, xvars, avars, mvars, dvars, tvars>>

\* stopwatch_main, input.rs 124-128: Ctrl-C while the timer runs returns the
\* empty delta
StopwatchCancelled ==
    /\ amc = "select"
    /\ adelta' = <<>>
    /\ amc' = "reload"
    /\ declined' = FALSE
    /\ UNCHANGED <<disk, snap, rsel, nother, xvars, avars, mvars, dvars, tvars>>

\* tag_main, input.rs 247: a leading '#' is dropped
StripPound(tag) == IF tag = "#t" THEN "t" ELSE tag

\* tag_main (input.rs 236-262): what it returns
TagMainDelta(s, category, tag, create) ==
    IF ~Contains(s.tags, StripPound(tag))
    THEN IF create
         THEN <<AddTag(StripPound(tag)), TagCategory(category, StripPound(tag))>>
         ELSE <<>>
    ELSE <<TagCategory(category, StripPound(tag))>>

\* tag_main; the category prompt's validator (common.rs 207-215) lets through
\* an active category only
TagMain(category, tag, create) ==
    /\ amc = "select"
    /\ Contains(snap.categories.options, category)
    /\ adelta' = TagMainDelta(snap, category, tag, create)
    /\ amc' = "reload"
    /\ declined' = (~Contains(snap.tags, StripPound(tag)) /\ ~create)
    /\ UNCHANGED <<disk, snap, rsel, nother, xvars, avars, mvars, dvars, tvars>>

\* The events a stopwatch makes: the times and the date are the clock's, the
\* category and the text are the user's.
StopwatchEvents ==
    {Event(SimpleTime(7, 0), SimpleTime(8, 30), 3, c, t) : c \in {"a", "b"}, t \in {"x", "y #t"}}

\* The stores the commands start from: those of amend, one whose categories
\* are there but whose tags are not, one with categories only.
CmdStores ==
    AmendStores \cup
        {[FilledSaveData EXCEPT !.categories.options = <<"a", "b">>, !.tags = <<>>,
                                !.tag_map = EmptyMap],
         [DefaultSaveData EXCEPT !.categories.options = <<"b">>]}

CmdInit ==
    /\ XIdle
    /\ TIdle
    /\ AIdle
    /\ MIdle
    /\ DIdle
    /\ disk \in CmdStores
    /\ snap = DefaultSaveData
    /\ rsel = 0
    /\ adelta = <<>>
    /\ amc = "start"
    /\ nother = 0
    /\ declined = FALSE

\* One invocation of record, stopwatch, amend or tag, alone.
CmdNext ==
    \/ AmendLoad
    \/ \E r \in 0..1 : DispatchAmend(r)
    \/ AmendNoEvents
    \/ \E ev \in AmendEvents, create \in BOOLEAN, createTags \in BOOLEAN :
            AmendMain(ev, create, createTags)
    \/ \E ev \in RecordEvents, create \in BOOLEAN, createTags \in BOOLEAN :
            RecordMain(ev, create, createTags)
    \/ \E ev \in StopwatchEvents, create \in BOOLEAN, createTags \in BOOLEAN :
            StopwatchMain(ev, create, createTags)
    \/ StopwatchCancelled
    \/ \E category \in {"a", "b"}, tag \in {"t", "#t", "u"}, create \in BOOLEAN :
            TagMain(category, tag, create)
    \/ ReloadApply

SpecCmd == CmdInit /\ [][CmdNext]_vars

-----------------------------------------------------------------------------
(* The dashboard (output.rs): filters, the aggregated durations, the messages *)

\* A difference that does not wrap at midnight.
Sub_NoWrap(lhs, rhs) ==
    (lhs.hour * 60 + lhs.minute) - (rhs.hour * 60 + rhs.minute)

\* impl Sub for SimpleTime (common.rs 233-246), in minutes
Sub(lhs, rhs) ==
    LET lhs_minute == lhs.hour * 60 + lhs.minute
        rhs_minute == rhs.hour * 60 + rhs.minute
        minutes == lhs_minute - rhs_minute
    IN  IF minutes < 0 THEN minutes + 60 * 24 ELSE minutes

\* The characters of the texts the events carry and the user types.
Chars(text) ==
    CASE text = "" -> <<>>
      [] text = "x" -> <<"x">>
      [] text = "y #t" -> <<"y", " ", "#", "t">>

\* str::contains on texts as character sequences
StrContains(hay, needle) ==
    \E o \in 0..(Len(hay) - Len(needle)) :
        \A i \in 1..Len(needle) : hay[o + i] = needle[i]

\* enum Filter (output.rs 54-59); a description's text is its characters
FilterStartDate(d) == [kind |-> "StartDate", date |-> d]
FilterEndDate(d) == [kind |-> "EndDate", date |-> d]
FilterCategory(c) == [kind |-> "Category", category |-> c]
FilterDescription(t) == [kind |-> "Description", text |-> t]

\* A filter whose start date is an exclusive bound.
FilterOne_Strict(f, ev) ==
    CASE f.kind = "StartDate" -> ev.date > f.date
      [] f.kind = "EndDate" -> ev.date <= f.date
      [] f.kind = "Category" -> ev.category = f.category
      [] f.kind = "Description" -> StrContains(Chars(ev.comments), f.text)

\* impl CanFilter for Filter (output.rs 100-109)
FilterOne(f, ev) ==
    CASE f.kind = "StartDate" -> ev.date >= f.date
      [] f.kind = "EndDate" -> ev.date <= f.date
      [] f.kind = "Category" -> ev.category = f.category
      [] f.kind = "Description" -> StrContains(Chars(ev.comments), f.text)

\* A list of filters that asks its first filter only.
FilterVec_First(fs, ev) == fs = <<>> \/ FilterOne(fs[1], ev)

\* impl CanFilter for Vec<T> (output.rs 111-115)
FilterVec(fs, ev) == \A i \in 1..Len(fs) : FilterOne(fs[i], ev)

\* impl CanFilter for Option<T> (output.rs 123-127)
FilterOption(f, ev) == f = NoFilter \/ FilterOne(f, ev)

\* impl CanFilter for (&T, &U), as render uses it:
\* `(&self.applied_filters, &self.editing_filter).filter(ev)`
FilterPair(fs, f, ev) == FilterVec(fs, ev) /\ FilterOption(f, ev)

\* The sum of a function's values over a set of its arguments.
RECURSIVE SumOver(_, _)
SumOver(f, S) ==
    IF S = {} THEN 0 ELSE LET x == CHOOSE y \in S : TRUE IN f[x] + SumOver(f, S \ {x})

\* render, output.rs 306-309: the events the list shows, by position in
\* State.events: `.filter(|ev| (&applied_filters, &editing_filter).filter(ev))`
ListedEvents(evs, fs, f) == {i \in 1..Len(evs) : FilterPair(fs, f, evs[i])}

\* An aggregation that leaves the filter being edited out.
AggregatedEvents_Confirmed(evs, fs, f) == {i \in 1..Len(evs) : FilterVec(fs, evs[i])}

\* render, output.rs 363-364: the events folded into category_sums
AggregatedEvents(evs, fs, f) == {i \in 1..Len(evs) : FilterPair(fs, f, evs[i])}

\* category_sums that starts a total for a category when an event names it.
category_sums_AnyCategory(evs, fs, f, options) ==
    LET shown == AggregatedEvents(evs, fs, f)
        names == {options[i] : i \in 1..Len(options)} \cup {evs[i].category : i \in shown}
    IN  [cat \in names |->
            SumOver([i \in shown |-> Sub(evs[i].end_time, evs[i].start_time)],
                    {i \in shown : evs[i].category = cat})]

\* render, output.rs 363-371: a total per category of categories.options,
\* starting at zero; each filtered event adds its duration to the total of its
\* category when there is one (`map.get_mut(..).map(..)`)
category_sums(evs, fs, f, options) ==
    LET shown == AggregatedEvents(evs, fs, f)
    IN  [cat \in {options[i] : i \in 1..Len(options)} |->
            SumOver([i \in shown |-> Sub(evs[i].end_time, evs[i].start_time)],
                    {i \in shown : evs[i].category = cat})]

\* `self.tag_map.get(cat).unwrap_or(&vec![])` (output.rs 376)
TagsOf(tag_map, cat) == IF cat \in DOMAIN tag_map THEN tag_map[cat] ELSE <<>>

\* tag_sums that adds a category's total to the first of its tags only.
tag_sums_FirstTag(sums, tags, tag_map) ==
    LET names == {tags[i] : i \in 1..Len(tags)}
        perCat(tag) ==
            [cat \in DOMAIN sums |->
                IF TagsOf(tag_map, cat) # <<>> /\ TagsOf(tag_map, cat)[1] = tag
                THEN sums[cat] ELSE 0]
    IN  IF \E cat \in DOMAIN sums : \E i \in 1..Len(TagsOf(tag_map, cat)) :
                TagsOf(tag_map, cat)[i] \notin names
        THEN Panic
        ELSE [tag \in names |-> SumOver(perCat(tag), DOMAIN sums)]

\* render, output.rs 372-381: a total per tag of self.tags, starting at zero;
\* each category of category_sums adds its total to every tag of its tag_map
\* entry, once per occurrence; `map.get_mut(tag).unwrap()` panics on a tag
\* that self.tags does not hold
tag_sums(sums, tags, tag_map) ==
    LET names == {tags[i] : i \in 1..Len(tags)}
        perCat(tag) ==
            [cat \in DOMAIN sums |->
                sums[cat] * Cardinality({i \in 1..Len(TagsOf(tag_map, cat)) :
                                            TagsOf(tag_map, cat)[i] = tag})]
    IN  IF \E cat \in DOMAIN sums : \E i \in 1..Len(TagsOf(tag_map, cat)) :
                TagsOf(tag_map, cat)[i] \notin names
        THEN Panic
        ELSE [tag \in names |-> SumOver(perCat(tag), DOMAIN sums)]

\* render, output.rs 386: the total shown as "all", `category_sums.values().sum()`
AllTotal(sums) == SumOver(sums, DOMAIN sums)

\* filter_main's key of an event (output.rs 144-148): later is smaller
SortKey(e) == 0 - ((e.date * 24 + e.start_time.hour) * 60 + e.start_time.minute)

\* `events.sort_by_key(..)`: a stable sort, latest first
RECURSIVE SortEvents(_)
SortEvents(evs) ==
    IF evs = <<>>
    THEN <<>>
    ELSE LET rest == SortEvents(Tail(evs))
             e == Head(evs)
             \* e goes before the first event of rest whose key is not smaller
             before == {i \in 1..Len(rest) : SortKey(rest[i]) >= SortKey(e)}
             k == IF before = {} THEN Len(rest) + 1
                  ELSE CHOOSE i \in before : \A j \in before : i <= j
         IN  SubSeq(rest, 1, k - 1) \o <<e>> \o SubSeq(rest, k, Len(rest))

\* The largest u16 (State.scroll_position).
U16Max == 65535

\* A FilterCategory::SIZE that counts the columns.
SIZE_Count == 3 + 1

\* FilterCategory::SIZE (output.rs 81-83)
SIZE == 3

\* impl TryFrom<usize> for FilterCategory (output.rs 67-79)
TryFromUsize(value) ==
    CASE value = 0 -> "StartDate"
      [] value = 1 -> "EndDate"
      [] value = 2 -> "Category"
      [] value = 3 -> "Description"
      [] OTHER -> "Err"

\* handle_keypresses (output.rs 266, 283): which of its two key maps is used
Editing == editing_filter # NoFilter

\* Bounds of the dashboard's inputs: the offset scrolled to, the filters
\* confirmed, the characters typed into one description.
MaxScroll == 3
MaxFilters == 2
MaxText == 2

\* What the user can pick or type in the dashboard.
DashDates == {1, 2}
DashChars == {"t", "X"}
\* A store as record and tag leave it: three active categories, two of them
\* tagged, one tag on two categories and one tag on none.
TaggedSaveData ==
    SaveDataV4(Categories(<<"a", "b", "c">>), Categories(<<>>), <<"t", "u", "v">>,
               [k \in {"a", "b"} |-> IF k = "a" THEN <<"t">> ELSE <<"t", "u">>],
               <<EvWork, EvLate, EvSame, EvNap>>, EmptyMap)

DashStores == BaseStores \cup {TaggedSaveData}

\* filter_main, output.rs 140-160: the events sorted, the State made
FilterMainStart ==
    /\ dpc = "off"
    /\ events' = SortEvents(dash_data.events)
    /\ scroll_position' = 0
    /\ header_highlight' = 0
    /\ applied_filters' = <<>>
    /\ editing_filter' = NoFilter
    /\ dpc' = "run"
    /\ UNCHANGED <<dash_data, dret, xvars, avars, mvars, cvars, tvars>>

\* An Exit that no key produces while a description is being edited.
Exit_OutsideEditing(key) ==
    /\ dpc = "run"
    /\ ~Editing
    /\ dpc' = "halt"
    /\ dret' = <<>>
    /\ UNCHANGED <<dash_data, events, scroll_position, header_highlight, applied_filters,
                   editing_filter, xvars, avars, mvars, cvars, tvars>>

\* Message::Exit (output.rs 181), from Ctrl-C in either key map or from q
\* outside editing; the loop ends and filter_main returns `vec![]` (174)
Exit(key) ==
    /\ dpc = "run"
    /\ key = "q" => ~Editing
    /\ dpc' = "halt"
    /\ dret' = <<>>
    /\ UNCHANGED <<dash_data, events, scroll_position, header_highlight, applied_filters,
                   editing_filter, xvars, avars, mvars, cvars, tvars>>

\* A scroll-down that wraps around at the width of u16.
ScrollDownTo_Wrapping(p) == (p + 3) % (U16Max + 1)

\* output.rs 182: `self.scroll_position.saturating_add(3)` on u16
ScrollDownTo(p) == IF p + 3 > U16Max THEN U16Max ELSE p + 3

\* output.rs 183: `self.scroll_position.saturating_sub(3)`
ScrollUpTo(p) == IF p < 3 THEN 0 ELSE p - 3

\* Message::ScrollDown (output.rs 182)
ScrollDown ==
    /\ dpc = "run"
    /\ scroll_position' = ScrollDownTo(scroll_position)
    /\ UNCHANGED <<dash_data, events, header_highlight, applied_filters, editing_filter,
                   dpc, dret, xvars, avars, mvars, cvars, tvars>>

\* Message::ScrollUp (output.rs 183)
ScrollUp ==
    /\ dpc = "run"
    /\ scroll_position' = ScrollUpTo(scroll_position)
    /\ UNCHANGED <<dash_data, events, header_highlight, applied_filters, editing_filter,
                   dpc, dret, xvars, avars, mvars, cvars, tvars>>

\* output.rs 184: `self.header_highlight.saturating_sub(1)`
TabLeftTo(h) == IF h < 1 THEN 0 ELSE h - 1

\* A move-right without the `min`.
TabRightTo_Unbounded(h) == h + 1

\* output.rs 185: `min(self.header_highlight + 1, FilterCategory::SIZE)`
TabRightTo(h) == IF h + 1 < SIZE THEN h + 1 ELSE SIZE

\* Message::TabLeft (output.rs 184)
TabLeft ==
    /\ dpc = "run"
    /\ ~Editing
    /\ header_highlight' = TabLeftTo(header_highlight)
    /\ UNCHANGED <<dash_data, events, scroll_position, applied_filters, editing_filter,
                   dpc, dret, xvars, avars, mvars, cvars, tvars>>

\* Message::TabRight (output.rs 185)
TabRight ==
    /\ dpc = "run"
    /\ ~Editing
    /\ header_highlight' = TabRightTo(header_highlight)
    /\ UNCHANGED <<dash_data, events, scroll_position, applied_filters, editing_filter,
                   dpc, dret, xvars, avars, mvars, cvars, tvars>>

\* The rest of the State, which no Enter changes.
EnterFrame ==
    UNCHANGED <<dash_data, events, scroll_position, header_highlight, dret,
                xvars, avars, mvars, cvars, tvars>>

\* Message::Enter on a date column (output.rs 187-204): the date the prompt
\* returned is pushed as a filter
EnterDate(date) ==
    /\ dpc = "run"
    /\ ~Editing
    /\ TryFromUsize(header_highlight) \in {"StartDate", "EndDate"}
    /\ Len(applied_filters) < MaxFilters
    /\ applied_filters' = Append(applied_filters,
            IF TryFromUsize(header_highlight) = "StartDate"
            THEN FilterStartDate(date) ELSE FilterEndDate(date))
    /\ UNCHANGED <<editing_filter, dpc>>
    /\ EnterFrame

\* Message::Enter on the category column (output.rs 205-216): the prompt's
\* validator (common.rs 197-205) lets through an active or archived name
EnterCategory(category) ==
    /\ dpc = "run"
    /\ ~Editing
    /\ TryFromUsize(header_highlight) = "Category"
    /\ \/ Contains(dash_data.categories.options, category)
       \/ Contains(dash_data.archived_categories.options, category)
    /\ Len(applied_filters) < MaxFilters
    /\ applied_filters' = Append(applied_filters, FilterCategory(category))
    /\ UNCHANGED <<editing_filter, dpc>>
    /\ EnterFrame

\* Message::Enter on the description column (output.rs 217)
EnterDescription ==
    /\ dpc = "run"
    /\ ~Editing
    /\ TryFromUsize(header_highlight) = "Description"
    /\ editing_filter' = FilterDescription(<<>>)
    /\ UNCHANGED <<applied_filters, dpc>>
    /\ EnterFrame

\* Message::Enter that ends in a panic: `try_into().unwrap()` (output.rs 187)
\* on a cursor that is no column, or `prompt().unwrap()` (193, 201, 211) on a
\* prompt the user left with Esc
EnterAborts ==
    /\ dpc = "run"
    /\ ~Editing
    /\ TryFromUsize(header_highlight) # "Description"
    /\ dpc' = IF TryFromUsize(header_highlight) = "Err" THEN "panic_convert" ELSE "panic_prompt"
    /\ UNCHANGED <<applied_filters, editing_filter>>
    /\ EnterFrame

\* The rest of the State, which no message of the editing key map changes.
EditFrame ==
    UNCHANGED <<dash_data, events, scroll_position, header_highlight, dpc, dret,
                xvars, avars, mvars, cvars, tvars>>

\* KeyTyped that puts the character in front of the text.
KeyTyped_Front(c) ==
    /\ dpc = "run"
    /\ Editing
    /\ Len(editing_filter.text) < MaxText
    /\ editing_filter' = FilterDescription(<<c>> \o editing_filter.text)
    /\ UNCHANGED applied_filters
    /\ EditFrame

\* Message::KeyTyped (output.rs 220-224): `cat.push(c)`
KeyTyped(c) ==
    /\ dpc = "run"
    /\ Editing
    /\ Len(editing_filter.text) < MaxText
    /\ editing_filter' = FilterDescription(Append(editing_filter.text, c))
    /\ UNCHANGED applied_filters
    /\ EditFrame

\* Message::Backspace (output.rs 225-229): `cat.pop()`
Backspace ==
    /\ dpc = "run"
    /\ Editing
    /\ editing_filter' =
          IF editing_filter.text = <<>>
          THEN editing_filter
          ELSE FilterDescription(SubSeq(editing_filter.text, 1, Len(editing_filter.text) - 1))
    /\ UNCHANGED applied_filters
    /\ EditFrame

\* FinishFilter that also drops from State.events what the filter rejects.
FinishFilter_Retain ==
    /\ dpc = "run"
    /\ Editing
    /\ Len(applied_filters) < MaxFilters
    /\ applied_filters' = Append(applied_filters, editing_filter)
    /\ editing_filter' = NoFilter
    /\ events' = SelectSeq(events, LAMBDA ev : FilterOne(editing_filter, ev))
    /\ UNCHANGED <<dash_data, scroll_position, header_highlight, dpc, dret,
                   xvars, avars, mvars, cvars, tvars>>

\* Message::FinishFilter (output.rs 230-234): `editing_filter.take()` is pushed
FinishFilter ==
    /\ dpc = "run"
    /\ Editing
    /\ Len(applied_filters) < MaxFilters
    /\ applied_filters' = Append(applied_filters, editing_filter)
    /\ editing_filter' = NoFilter
    /\ EditFrame

\* Message::CancelFilter (output.rs 235-237)
CancelFilter ==
    /\ dpc = "run"
    /\ Editing
    /\ editing_filter' = NoFilter
    /\ UNCHANGED applied_filters
    /\ EditFrame

DashInit ==
    /\ XIdle
    /\ TIdle
    /\ AIdle
    /\ MIdle
    /\ CIdle
    /\ dash_data \in DashStores
    /\ events = <<>>
    /\ scroll_position = 0
    /\ header_highlight = 0
    /\ applied_filters = <<>>
    /\ editing_filter = NoFilter
    /\ dpc = "off"
    /\ dret = NoRet

\* A scroll-down that stays within the offsets looked at here.
ScrollDownWithin == scroll_position + 3 <= MaxScroll /\ ScrollDown

\* filter_main's loop: one key event, one message, one handle_message
DashNext ==
    \/ FilterMainStart
    \/ \E key \in {"ctrl-c", "q"} : Exit(key)
    \/ ScrollDownWithin
    \/ ScrollUp
    \/ TabLeft
    \/ TabRight
    \/ \E date \in DashDates : EnterDate(date)
    \/ \E category \in {"a", "b", "c"} : EnterCategory(category)
    \/ EnterDescription
    \/ EnterAborts
    \/ \E c \in DashChars : KeyTyped(c)
    \/ Backspace
    \/ FinishFilter
    \/ CancelFilter

SpecDash == DashInit /\ [][DashNext]_vars

\* A key typed into a description kept one character shorter.
KeyTypedShort(c) == Editing /\ Len(editing_filter.text) < MaxText - 1 /\ KeyTyped(c)

\* The same loop with shorter descriptions, for what the frame shows.
ViewNext ==
    \/ FilterMainStart
    \/ \E key \in {"ctrl-c", "q"} : Exit(key)
    \/ ScrollDownWithin
    \/ ScrollUp
    \/ TabLeft
    \/ TabRight
    \/ \E date \in DashDates : EnterDate(date)
    \/ \E category \in {"a", "b", "c"} : EnterCategory(category)
    \/ EnterDescription
    \/ EnterAborts
    \/ \E c \in DashChars : KeyTypedShort(c)
    \/ Backspace
    \/ FinishFilter
    \/ CancelFilter

SpecView == DashInit /\ [][ViewNext]_vars

\* The dashboard of one store under scroll messages only, any number of them.
ScrollInit == DashInit /\ dash_data = FilledSaveData

ScrollNext == FilterMainStart \/ ScrollDown \/ ScrollUp

SpecScroll == ScrollInit /\ [][ScrollNext]_vars

-----------------------------------------------------------------------------
(* SimpleTime (common.rs 44-77, 233-246): the factory, the parser, the difference *)

\* The values of a u8.
U8 == 0..255

\* A try_new that brings the hour and the minute into range.
try_new_Clamp(hour, minute) ==
    Some(SimpleTime(IF hour < 24 THEN hour ELSE 23, IF minute < 60 THEN minute ELSE 59))

\* SimpleTime::try_new (common.rs 44-52)
try_new(hour, minute) ==
    IF hour < 24 /\ minute < 60 THEN Some(SimpleTime(hour, minute)) ELSE None

\* The value of a decimal digit, -1 for any other character.
DigitOf(c) ==
    CASE c = "0" -> 0 [] c = "1" -> 1 [] c = "2" -> 2 [] c = "3" -> 3 [] c = "4" -> 4
      [] c = "5" -> 5 [] c = "6" -> 6 [] c = "7" -> 7 [] c = "8" -> 8 [] c = "9" -> 9
      [] OTHER -> 0 - 1

\* The number a run of digits writes.
RECURSIVE DecimalOf(_)
DecimalOf(t) ==
    IF t = <<>> THEN 0 ELSE 10 * DecimalOf(SubSeq(t, 1, Len(t) - 1)) + DigitOf(t[Len(t)])

\* `hour.parse().ok()?` (common.rs 71), u8's FromStr: an optional plus sign, then
\* at least one digit and nothing else, the number no more than 255
ParseU8(t) ==
    LET digits == IF t # <<>> /\ t[1] = "+" THEN Tail(t) ELSE t
    IN  IF /\ digits # <<>>
           /\ \A i \in 1..Len(digits) : DigitOf(digits[i]) >= 0
           /\ DecimalOf(digits) \in U8
        THEN Some(DecimalOf(digits))
        ELSE None

\* get_time_unchecked (common.rs 58-72): the text split at its first colon, or
\* in the middle when it has four characters and no colon
get_time_unchecked(input) ==
    LET colons == {i \in 1..Len(input) : input[i] = ":"}
        idx == CHOOSE i \in colons : \A j \in colons : i <= j
        parts == IF colons # {}
                 THEN Some(<<SubSeq(input, 1, idx - 1), SubSeq(input, idx + 1, Len(input))>>)
                 ELSE IF Len(input) = 4
                      THEN Some(<<SubSeq(input, 1, 2), SubSeq(input, 3, 4)>>)
                      ELSE None
    IN  IF parts = None THEN None
        ELSE IF ParseU8(parts.val[1]) = None \/ ParseU8(parts.val[2]) = None THEN None
             ELSE Some(<<ParseU8(parts.val[1]).val, ParseU8(parts.val[2]).val>>)

\* impl FromStr for SimpleTime (common.rs 54-77)
SimpleTimeFromStr(s) ==
    IF get_time_unchecked(s) = None THEN None
    ELSE try_new(get_time_unchecked(s).val[1], get_time_unchecked(s).val[2])

\* The times there are.
ValidTimes == {SimpleTime(h, m) : h \in 0..23, m \in 0..59}

\* The minutes of the times subtracted: with 0 and 59 every difference occurs.
RhsMinutes == {0, 30, 59}

\* The texts handed to the parser, as characters.
TimeTexts ==
    {<<"7", ":", "0", "5">>, <<"0", "7", ":", "0", "5">>, <<"0", "7", "0", "5">>,
     <<"7", "0", "5">>, <<"2", "3", ":", "5", "9">>, <<"2", "4", ":", "0", "0">>,
     <<"2", "3", ":", "6", "0">>, <<"2", "3", "6", "0">>, <<"2", "5", "6", ":", "0">>,
     <<"+", "7", ":", "5">>, <<"1", ":", "2", ":", "3">>, <<"a", "b", ":", "c", "d">>,
     <<":">>, <<>>}

\* SimpleTime::try_new(hour, minute), called
TryNew ==
    /\ tpc = "call"
    /\ "hour" \in DOMAIN tin
    /\ tout' = try_new(tin.hour, tin.minute)
    /\ tpc' = "done"
    /\ UNCHANGED <<tin, xvars, avars, mvars, cvars, dvars>>

\* s.parse::<SimpleTime>(), called
FromStr ==
    /\ tpc = "call"
    /\ "s" \in DOMAIN tin
    /\ tout' = SimpleTimeFromStr(tin.s)
    /\ tpc' = "done"
    /\ UNCHANGED <<tin, xvars, avars, mvars, cvars, dvars>>

\* lhs - rhs, called
SubTimes ==
    /\ tpc = "call"
    /\ "lhs" \in DOMAIN tin
    /\ tout' = Sub(tin.lhs, tin.rhs)
    /\ tpc' = "done"
    /\ UNCHANGED <<tin, xvars, avars, mvars, cvars, dvars>>

TimeInit ==
    /\ XIdle
    /\ AIdle
    /\ MIdle
    /\ CIdle
    /\ DIdle
    /\ \/ tin \in [hour : U8, minute : U8]
       \/ tin \in [s : TimeTexts]
       \/ tin \in [lhs : ValidTimes,
                   rhs : {t \in ValidTimes : t.minute \in RhsMinutes}]
    /\ tout = NoRet
    /\ tpc = "call"

TimeNext == TryNew \/ FromStr \/ SubTimes

SpecTime == TimeInit /\ [][TimeNext]_vars

-----------------------------------------------------------------------------
(* Properties of extract, checked under SpecExtract *)

\* The value Default::default() gives a field.
DefaultOf(f) == DefaultSaveData[f]

\* C6: for an input of revision Vn extract never panics, makes at most three
\* upgrade steps and can always take its next step until it returns; when it
\* returns it has made exactly 4 - n steps and the result has the fields of
\* the current revision, every field the input revision lacks being empty.
C6_ExtractTerminates ==
    /\ xsteps <= 3
    /\ xpc # "panic"
    /\ xpc \in {"call", "loop"} => ENABLED ExtractNext
    /\ xpc = "ret" =>
          /\ xsteps = 4 - xin.ver
          /\ DOMAIN xret.data = FieldsOf(Latest)
          /\ \A f \in FieldsOf(Latest) \ FieldsOf(xin.ver) : xret.data[f] = DefaultOf(f)

\* A V1 input with events and categories came back after three steps.
C6_Witness ==
    /\ xpc = "ret"
    /\ xin.ver = 1
    /\ xsteps = 3
    /\ xin.data.events # <<>>
    /\ xin.data.categories.options # <<>>

\* C7: every field the input revision has keeps its value in the result of
\* extract, the events in the same order.
C7_MigrationPreserves ==
    xpc = "ret" => \A f \in FieldsOf(xin.ver) : xret.data[f] = xin.data[f]

\* A V3 input with two events, tags and a tag map was upgraded.
C7_Witness ==
    /\ xpc = "ret"
    /\ xin.ver = 3
    /\ xret.upgraded
    /\ Len(xin.data.events) = 2
    /\ xin.data.tags # <<>>
    /\ DOMAIN xin.data.tag_map # {}

\* C8: the boolean extract returns is true exactly when an upgrade step ran,
\* which is exactly when the input was not of the current revision; a
\* current-revision input comes back unchanged with false.
C8_UpgradedFlag ==
    xpc = "ret" =>
        /\ xret.upgraded = (xsteps > 0)
        /\ xret.upgraded = (xin.ver # Latest)
        /\ xin.ver = Latest => xret = [data |-> xin.data, upgraded |-> FALSE]

\* One input returned with true, after at least one step.
C8_Witness == xpc = "ret" /\ xret.upgraded /\ xsteps > 0 /\ xin.ver = 2

-----------------------------------------------------------------------------
(* Properties of apply, checked under SpecApply *)

\* C10: apply over a list is compatible with concatenation. The store reached
\* by applying the lists one after another is the one a single apply of their
\* concatenation gives; applying the pending list to it gives what one apply
\* of everything gives; and once a list has failed, every longer list fails.
C10_ApplyConcat ==
    /\ sd = ApplyVec(base, applied)
    /\ apc # "panic" => ApplyVec(sd, delta) = ApplyVec(base, applied \o delta)
    /\ apc = "panic" => \A d \in DeltaPool : ApplyVec(base, Append(applied, d)) = Panic

\* Two non-empty lists, the first applied and the second changing the store.
C10_Witness ==
    /\ apc = "run"
    /\ Len(applied) >= 1
    /\ Len(delta) >= 1
    /\ sd # base
    /\ ApplyVec(sd, delta) # Panic
    /\ ApplyVec(sd, delta) # sd

\* C9: a store reached by applying intents is written under the tag of the
\* current revision, and loading the file written gives back that store with
\* upgraded = false.
C9_SaveLoadRoundTrip ==
    /\ apc \in {"saved", "loaded"} => file.st = "full" /\ file.doc.tag = TagOf(Latest)
    /\ apc = "loaded" => loaded = [data |-> sd, upgraded |-> FALSE]

\* A store with events, a tag map and a daily note went through save and load.
C9_Witness ==
    /\ apc = "loaded"
    /\ base = DefaultSaveData
    /\ sd.events # <<>>
    /\ DOMAIN sd.tag_map # {}
    /\ DOMAIN sd.daily_notes # {}

-----------------------------------------------------------------------------
(* Properties of main, checked under SpecMain (overlapping invocations) and   *)
(* SpecSeq (one invocation at a time)                                        *)

\* The last element of a non-empty Vec.
Last(v) == v[Len(v)]

\* C1 (as claimed): the steps are load, interact, reload, apply, write, so the
\* store an invocation's changes are made to is the one the save file holds
\* when its interactive phase ends, not the one loaded before it.
C1_AppliedToReloaded ==
    [][\A p \in Procs :
          (pc[p] = "interact" /\ pc'[p] = "create") =>
              /\ LoadFile(CanonContent) # Panic
              /\ \E ev \in RecordEvents, create \in BOOLEAN :
                    save_data'[p] = RecordEffect(LoadFile(CanonContent).data, ev, create)]_vars

\* C2 (as claimed): when B renamed its file in while A was still in its
\* interactive phase (and no third invocation has run), the file A's rename
\* leaves holds the event B recorded.
C2_NoLostUpdate ==
    [][\A a \in Procs :
          (pc[a] = "rename" /\ pc'[a] = "done") =>
              \A b \in wroteDuring[a] :
                  (\A c \in Procs \ {a, b} : pc[c] = "start") =>
                      /\ Parses(CanonContent')
                      /\ Contains(LoadFile(CanonContent').data.events,
                                  Last(save_data[b].events))]_vars

-----------------------------------------------------------------------------
(* Properties of amend, checked under SpecAmend *)

\* The apply step of an amend that produced intents.
AmendApplied == amc = "reload" /\ amc' = "done" /\ adelta # <<>>

-----------------------------------------------------------------------------
(* Properties of the single intents, checked under SpecApply *)

\* The step is an apply of the one intent in delta, of the given kind.
AppliesOne(kind) ==
    /\ apc \in {"idle", "run"}
    /\ Len(delta) = 1
    /\ delta[1].kind = kind
    /\ applied' = Append(applied, delta[1])

\* The fields of the store apart from the given ones are left as they are.
SameExcept(fields) ==
    \A f \in FieldsOf(Latest) \ fields : sd'[f] = sd[f]

\* How many times x is in the Vec.
Count(v, x) == Cardinality({i \in 1..Len(v) : v[i] = x})

\* No element is in the Vec twice.
NoDup(v) == \A i, j \in 1..Len(v) : v[i] = v[j] => i = j

\* C11 (as claimed): a replace-event whose index is not below the number of
\* events makes apply return an error value, the process goes on, and the
\* store is as it was.
C11_IndexErrorValue ==
    [][(AppliesOne("ChangeEvent") /\ delta[1].index >= Len(sd.events)) =>
          /\ apc' = "error"
          /\ sd' = sd]_vars

\* C12 (as claimed): in every store reached from the empty one, no name is
\* both an active and an archived category.
C12_ActiveArchivedDisjoint ==
    (base = DefaultSaveData /\ sd # Panic) =>
        \A i \in 1..Len(sd.categories.options) :
            ~Contains(sd.archived_categories.options, sd.categories.options[i])

\* C13: add-category, add-tag and attach-tag of an item that is already there
\* succeed and leave the whole store as it was; so the active categories, the
\* tags and every tag_map entry never hold a name twice.
C13_InsertIfAbsent ==
    /\ [](sd # Panic =>
            /\ NoDup(sd.categories.options)
            /\ NoDup(sd.tags)
            /\ \A c \in DOMAIN sd.tag_map : NoDup(sd.tag_map[c]))
    /\ [][(AppliesOne("AddCategory") /\ Contains(sd.categories.options, delta[1].category))
            => (sd' = sd /\ apc' = "run")]_vars
    /\ [][(AppliesOne("AddTag") /\ Contains(sd.tags, delta[1].tag))
            => (sd' = sd /\ apc' = "run")]_vars
    /\ [][(/\ AppliesOne("TagCategory")
           /\ delta[1].category \in DOMAIN sd.tag_map
           /\ Contains(sd.tag_map[delta[1].category], delta[1].tag))
            => (sd' = sd /\ apc' = "run")]_vars

\* An attach-tag was applied a second time to the store the first one left.
C13_Witness ==
    /\ apc = "run"
    /\ base = DefaultSaveData
    /\ Len(applied) = 2
    /\ applied[1] = applied[2]
    /\ applied[1].kind = "TagCategory"
    /\ sd.tag_map[applied[1].category] = <<applied[1].tag>>

\* C14: archive-category(c) succeeds on any store; afterwards c is not active,
\* the other active names are the ones there were, the archived list is the
\* previous one followed by c, and nothing else has changed.
C14_ArchiveUnconditional ==
    [][AppliesOne("ArchiveCategory") =>
          LET c == delta[1].category
          IN  /\ apc' = "run"
              /\ sd' # Panic
              /\ ~Contains(sd'.categories.options, c)
              /\ \A x \in {"a", "b", "c"} \ {c} :
                    Count(sd'.categories.options, x) = Count(sd.categories.options, x)
              /\ sd'.archived_categories.options = Append(sd.archived_categories.options, c)
              /\ SameExcept({"categories", "archived_categories"})]_vars

\* A category that was not active and was archived already has been archived
\* again: the archived list holds it twice.
C14_Witness ==
    /\ apc = "run"
    /\ base = DefaultSaveData
    /\ applied = <<ArchiveCategory("a"), ArchiveCategory("a")>>
    /\ sd.categories.options = <<>>
    /\ sd.archived_categories.options = <<"a", "a">>

\* C16: add-event appends: the events are the previous ones, at their
\* indices, followed by the new one at index len - 1; nothing else changes.
C16_AddEventAppends ==
    [][AppliesOne("AddEvent") =>
          /\ apc' = "run"
          /\ sd' # Panic
          /\ Len(sd'.events) = Len(sd.events) + 1
          /\ sd'.events[Len(sd'.events)] = delta[1].event
          /\ \A i \in 1..Len(sd.events) : sd'.events[i] = sd.events[i]
          /\ SameExcept({"events"})]_vars

\* An event was added after two others that differ from it.
C16_Witness ==
    /\ apc = "run"
    /\ base = FilledSaveData
    /\ applied = <<AddEvent(EvWork)>>
    /\ sd.events = <<EvWork, EvLate, EvWork>>

\* The apply step's intents are two or more set-daily-note, all of one date.
AppliesNotesOf(d) ==
    /\ apc \in {"idle", "run"}
    /\ Len(delta) >= 2
    /\ \A i \in 1..Len(delta) : delta[i].kind = "SetDailyNote" /\ delta[i].date = d
    /\ applied' = applied \o delta

\* C17: set-daily-note(d, t) makes the note of d be t whatever it was, keeps
\* the notes of the other dates and everything else; of several for one date
\* in one list the last one's text is the note.
C17_DailyNoteUpsert ==
    /\ [][AppliesOne("SetDailyNote") =>
            LET d == delta[1].date
            IN  /\ apc' = "run"
                /\ sd' # Panic
                /\ DOMAIN sd'.daily_notes = DOMAIN sd.daily_notes \cup {d}
                /\ sd'.daily_notes[d] = delta[1].note
                /\ \A o \in DOMAIN sd.daily_notes \ {d} :
                      sd'.daily_notes[o] = sd.daily_notes[o]
                /\ SameExcept({"daily_notes"})]_vars
    /\ [][\A d \in {1, 2} :
            AppliesNotesOf(d) =>
                /\ sd' # Panic
                /\ sd'.daily_notes[d] = delta[Len(delta)].note
                /\ DOMAIN sd'.daily_notes = DOMAIN sd.daily_notes \cup {d}]_vars

\* The note of a date that had one was set twice in one list, to two texts,
\* and the second text is the note; the note of another date is kept.
C17_Witness ==
    /\ apc = "run"
    /\ base = FilledSaveData
    /\ applied = <<SetDailyNote(2, "k"), SetDailyNote(1, "n"), SetDailyNote(1, "m")>>
    /\ sd.daily_notes = [k \in {1, 2} |-> IF k = 1 THEN "m" ELSE "k"]

\* The total the dashboard shows as "all" for a store, with no filter set.
DashTotal(s) ==
    AllTotal(category_sums(SortEvents(s.events), <<>>, NoFilter, s.categories.options))

\* C15 (as claimed): archive-category(c) leaves every recorded event as it
\* was, and the durations of the events of category c stay in the dashboard's
\* totals: the total shown for the store after is the total shown before.
C15_ArchiveKeepsHistory ==
    [][AppliesOne("ArchiveCategory") =>
          /\ sd' # Panic
          /\ sd'.events = sd.events
          /\ DashTotal(sd') = DashTotal(sd)]_vars

-----------------------------------------------------------------------------
(* Properties of the dashboard, checked under SpecDash *)

\* C19: the dashboard changes neither the store it was given nor its event
\* list (the store's events, latest first), whatever the messages; and when
\* its loop has ended, filter_main has returned no intent.
C19_DashboardReadOnly ==
    /\ [](dpc # "off" => events = SortEvents(dash_data.events))
    /\ [][dash_data' = dash_data]_vars
    /\ [][dpc # "off" => events' = events]_vars
    /\ [](dpc = "halt" => dret = <<>>)
    /\ [](dret \in {NoRet, <<>>})

\* The loop has ended after filters were confirmed on a store with events.
C19_Witness ==
    /\ dpc = "halt"
    /\ dret = <<>>
    /\ Len(events) = 2
    /\ events # dash_data.events
    /\ Len(applied_filters) = 2
    /\ scroll_position > 0

\* C20 (as claimed): the header cursor stays within 0..4, move-left at 0
\* stays at 0, and move-right goes one up until it stays at 4, so that 4 is
\* reached from 3.
C20_CursorUpToFour ==
    /\ header_highlight \in 0..4
    /\ header_highlight = 0 => TabLeftTo(header_highlight) = 0
    /\ TabRightTo(header_highlight) = (IF header_highlight < 4 THEN header_highlight + 1 ELSE 4)

\* C20 (amended): the header cursor stays within 0..3, the four filter
\* columns; it changes only by one step left or right; move-left at 0 stays
\* at 0; move-right goes one up until it stays at 3 (Description), so that 4
\* is never reached.
C20_CursorUpToThree ==
    /\ [](header_highlight \in 0..3)
    /\ [](header_highlight = 0 => TabLeftTo(header_highlight) = 0)
    /\ [](TabRightTo(header_highlight) =
              (IF header_highlight < 3 THEN header_highlight + 1 ELSE 3))
    /\ [][header_highlight' \in
            {header_highlight, TabLeftTo(header_highlight), TabRightTo(header_highlight)}]_vars

\* The cursor is at 3 and Enter there has started a description filter: 3 is
\* the last column.
C20_Witness ==
    /\ dpc = "run"
    /\ header_highlight = 3
    /\ TryFromUsize(header_highlight) = "Description"
    /\ editing_filter # NoFilter

-----------------------------------------------------------------------------
(* Properties of the commands, checked under SpecCmd *)

\* C18: when the user's last answer in record, stopwatch, amend or tag refused
\* to create a category or tag, no intent is handed on from that attempt, and
\* whether the command then ends by returning or by a panic, the store the
\* save file holds is the one that was loaded.
C18_DeclineNothingPersisted ==
    /\ declined => adelta = <<>>
    /\ (declined /\ amc \in {"reload", "done", "panic"}) => disk = snap

\* On a store with no category, the category's creation was confirmed and then
\* the tag's was refused: the command has ended and the store is as loaded.
C18_Witness ==
    /\ declined
    /\ amc = "panic"
    /\ snap = DefaultSaveData
    /\ disk = DefaultSaveData

\* C21 (as claimed): scroll-down adds 3 to the offset whatever it is, so any
\* number of scroll-downs keeps increasing it by 3 each; scroll-up subtracts 3
\* and stops at 0.
C21_ScrollNoUpperBound ==
    /\ scroll_position >= 0
    /\ ScrollUpTo(scroll_position) = (IF scroll_position < 3 THEN 0 ELSE scroll_position - 3)
    /\ ScrollDownTo(scroll_position) = scroll_position + 3

\* C21 (amended): scroll-down adds 3 to the offset up to 65535, the largest
\* u16, where it stays; scroll-up subtracts 3 and stops at 0; the offset is
\* never negative and changes in no other way.
C21_ScrollSaturates ==
    /\ [](scroll_position \in 0..U16Max)
    /\ [](ScrollUpTo(scroll_position) = (IF scroll_position < 3 THEN 0 ELSE scroll_position - 3))
    /\ [](ScrollDownTo(scroll_position) =
              (IF scroll_position + 3 > U16Max THEN U16Max ELSE scroll_position + 3))
    /\ [][scroll_position' \in
            {scroll_position, ScrollUpTo(scroll_position), ScrollDownTo(scroll_position)}]_vars

\* The offset has reached the largest u16.
C21_Witness ==
    /\ dpc = "run"
    /\ scroll_position = U16Max

\* The text without its last character.
Front(t) == SubSeq(t, 1, Len(t) - 1)

\* C22: the in-progress filter appears only by Enter on the description
\* column, as a description filter with empty text; while it is there its
\* text changes only by one typed character appended or by its last character
\* removed, and the cursor does not move; it goes away either with the
\* confirmed list unchanged (escape) or with itself, text as it is, appended
\* to the end of the confirmed list (enter); and the confirmed list changes
\* in no other way while it is there.
C22_DescriptionEditing ==
    /\ [](editing_filter = NoFilter \/ editing_filter.kind = "Description")
    /\ [][(~Editing /\ editing_filter' # NoFilter) =>
            /\ TryFromUsize(header_highlight) = "Description"
            /\ editing_filter' = FilterDescription(<<>>)
            /\ applied_filters' = applied_filters]_vars
    /\ [][(Editing /\ editing_filter' # NoFilter /\ editing_filter' # editing_filter) =>
            /\ \/ \E c \in DashChars :
                     editing_filter'.text = Append(editing_filter.text, c)
               \/ /\ editing_filter.text # <<>>
                  /\ editing_filter'.text = Front(editing_filter.text)
            /\ applied_filters' = applied_filters]_vars
    /\ [][(Editing /\ editing_filter' = NoFilter) =>
            \/ applied_filters' = applied_filters
            \/ applied_filters' = Append(applied_filters, editing_filter)]_vars
    /\ [][(Editing /\ applied_filters' # applied_filters) =>
            /\ applied_filters' = Append(applied_filters, editing_filter)
            /\ editing_filter' = NoFilter]_vars
    /\ [][Editing => header_highlight' = header_highlight]_vars

\* A description typed as x then t was confirmed behind a filter that was
\* there already.
C22_Witness ==
    /\ dpc = "run"
    /\ editing_filter = NoFilter
    /\ Len(applied_filters) = 2
    /\ applied_filters[1].kind = "StartDate"
    /\ applied_filters[2] = FilterDescription(<<"t", "X">>)

\* render's category_sums and tag_sums in the current State (output.rs 363-381);
\* State.categories, tags and tag_map are the store's (output.rs 152-157)
RenderSums ==
    category_sums(events, applied_filters, editing_filter, dash_data.categories.options)
RenderTags == tag_sums(RenderSums, dash_data.tags, dash_data.tag_map)

\* An event's duration as render computes it: `ev.end_time - ev.start_time`
Duration(ev) == Sub(ev.end_time, ev.start_time)

\* C23: in every dashboard state the events shown in the list and the events fed
\* to the aggregation are the same set: exactly the events that satisfy every
\* confirmed filter and, if there is one, the filter being edited; with no
\* filter at all, every event.
C23_SameFilteredSet ==
    dpc # "off" =>
        LET listed == ListedEvents(events, applied_filters, editing_filter)
            fed == AggregatedEvents(events, applied_filters, editing_filter)
            passing == {i \in 1..Len(events) :
                          /\ \A k \in 1..Len(applied_filters) :
                                FilterOne(applied_filters[k], events[i])
                          /\ Editing => FilterOne(editing_filter, events[i])}
        IN  /\ listed = fed
            /\ listed = passing
            /\ (applied_filters = <<>> /\ ~Editing) => listed = 1..Len(events)

\* A confirmed filter and a filter being edited that each exclude an event the
\* other lets through.
C23_Witness ==
    /\ dpc = "run"
    /\ applied_filters # <<>>
    /\ Editing
    /\ ListedEvents(events, applied_filters, editing_filter) # {}
    /\ ListedEvents(events, applied_filters, editing_filter)
            # ListedEvents(events, applied_filters, NoFilter)
    /\ ListedEvents(events, applied_filters, editing_filter)
            # ListedEvents(events, <<>>, editing_filter)

\* The permutations of 1..n.
Perms(n) == {p \in [1..n -> 1..n] : \A i, j \in 1..n : p[i] = p[j] => i = j}

\* C24: filtering is order-independent: every permutation of the list of
\* confirmed filters shows the same set of events.
C24_OrderIndependent ==
    \A p \in Perms(Len(applied_filters)) :
        ListedEvents(events, [i \in 1..Len(applied_filters) |-> applied_filters[p[i]]],
                     editing_filter)
            = ListedEvents(events, applied_filters, editing_filter)

\* Two confirmed filters that pass different events, and both narrow the list.
C24_Witness ==
    /\ dpc = "run"
    /\ Len(applied_filters) = 2
    /\ ~Editing
    /\ ListedEvents(events, applied_filters, NoFilter) # {}
    /\ ListedEvents(events, <<applied_filters[1]>>, NoFilter)
            # ListedEvents(events, applied_filters, NoFilter)
    /\ ListedEvents(events, <<applied_filters[2]>>, NoFilter)
            # ListedEvents(events, applied_filters, NoFilter)

\* hay holds needle as a run of consecutive characters, compared exactly.
HasSubstring(hay, needle) ==
    \E a \in 0..Len(hay) :
        /\ a + Len(needle) <= Len(hay)
        /\ SubSeq(hay, a + 1, a + Len(needle)) = needle

\* What one filter is to let through.
Satisfies(f, ev) ==
    \/ f.kind = "StartDate" /\ ~(ev.date < f.date)
    \/ f.kind = "EndDate" /\ ~(ev.date > f.date)
    \/ f.kind = "Category" /\ ev.category = f.category
    \/ f.kind = "Description" /\ HasSubstring(Chars(ev.comments), f.text)

\* The filters of the current State, confirmed or being edited.
FiltersPresent ==
    {applied_filters[k] : k \in 1..Len(applied_filters)}
        \cup (IF Editing THEN {editing_filter} ELSE {})

\* C25: a single filter shows exactly: for an at/after-date filter d the events
\* dated d or later, for an at/before-date filter d the events dated d or
\* earlier, for a category filter the events of that category, for a
\* description filter the events whose text holds the filter's text as a
\* case-sensitive substring.
C25_SingleFilter ==
    \A f \in FiltersPresent :
        ListedEvents(events, <<f>>, NoFilter)
            = {i \in 1..Len(events) : Satisfies(f, events[i])}

\* Both date bounds set to the date of an event, which the list still shows.
C25_Witness ==
    /\ dpc = "run"
    /\ applied_filters = <<FilterStartDate(2), FilterEndDate(2)>>
    /\ \E i \in ListedEvents(events, applied_filters, NoFilter) : events[i].date = 2

\* Case matters: a description filter "X" confirmed on a store with a text "x".
C25_WitnessCase ==
    /\ dpc = "run"
    /\ applied_filters = <<FilterDescription(<<"X">>)>>
    /\ \E i \in 1..Len(events) : events[i].comments = "x"
    /\ ListedEvents(events, applied_filters, NoFilter) = {}

\* C26: the total shown as "all" is the sum of the durations of all the events
\* currently filtered, and is the sum of the per-category totals.
C26_AllIsSumOfFiltered ==
    dpc = "run" =>
        LET listed == ListedEvents(events, applied_filters, editing_filter)
        IN  /\ AllTotal(RenderSums) = SumOver([i \in listed |-> Duration(events[i])], listed)
            /\ AllTotal(RenderSums) = SumOver(RenderSums, DOMAIN RenderSums)

\* C27: every tag of the registry has a total, the sum of the per-category
\* totals of exactly the categories whose tag_map entry holds the tag; a tag
\* attached to no category totals zero, and a category without tags changes no
\* tag's total.
C27_TagTotals ==
    dpc # "off" =>
        LET registry == {dash_data.tags[i] : i \in 1..Len(dash_data.tags)}
            Attached(cat, tag) ==
                /\ cat \in DOMAIN dash_data.tag_map
                /\ \E i \in 1..Len(dash_data.tag_map[cat]) : dash_data.tag_map[cat][i] = tag
        IN  /\ RenderTags # Panic
            /\ DOMAIN RenderTags = registry
            /\ \A tag \in registry :
                /\ RenderTags[tag]
                        = SumOver(RenderSums, {cat \in DOMAIN RenderSums : Attached(cat, tag)})
                /\ (\A cat \in DOMAIN dash_data.tag_map : ~Attached(cat, tag))
                        => RenderTags[tag] = 0
            /\ \A cat \in DOMAIN RenderSums :
                (\A tag \in registry : ~Attached(cat, tag)) =>
                    tag_sums([c \in DOMAIN RenderSums \ {cat} |-> RenderSums[c]],
                             dash_data.tags, dash_data.tag_map) = RenderTags

\* A tag on two categories with time, a tag on one, a tag on none, and a
\* category with time and no tag.
C27_Witness ==
    /\ dpc = "run"
    /\ dash_data = TaggedSaveData
    /\ RenderSums["a"] > 0 /\ RenderSums["b"] > 0 /\ RenderSums["c"] > 0
    /\ RenderTags["t"] = RenderSums["a"] + RenderSums["b"]
    /\ RenderTags["u"] = RenderSums["b"]
    /\ RenderTags["v"] = 0

\* The minutes since midnight a time stands for.
MinuteOfDay(t) == 60 * t.hour + t.minute

\* C28: for all valid times a and b, a - b is the difference of their minutes
\* of the day modulo 1440, so within 0..1439 minutes; 07:00 - 07:00 is 0,
\* 08:30 - 07:00 is 90 and 01:00 - 23:00 is 120 minutes.
C28_SubModuloDay ==
    /\ (tpc = "done" /\ "lhs" \in DOMAIN tin) =>
            /\ tout = (MinuteOfDay(tin.lhs) - MinuteOfDay(tin.rhs)) % 1440
            /\ tout \in 0..1439
    /\ Sub(SimpleTime(7, 0), SimpleTime(7, 0)) = 0
    /\ Sub(SimpleTime(8, 30), SimpleTime(7, 0)) = 90
    /\ Sub(SimpleTime(1, 0), SimpleTime(23, 0)) = 120

\* The difference across midnight, taken.
C28_Witness ==
    /\ tpc = "done"
    /\ tin = [lhs |-> SimpleTime(1, 0), rhs |-> SimpleTime(23, 0)]
    /\ tout = 120

\* C29: the factory accepts an hour and a minute exactly when the hour is
\* within 0..23 and the minute within 0..59, and the time it returns has those
\* values; every other pair gets no time. The parser, which goes through the
\* factory, returns a time within these ranges or none.
C29_FactoryValidates ==
    /\ (tpc = "done" /\ "hour" \in DOMAIN tin) =>
            IF tin.hour \in 0..23 /\ tin.minute \in 0..59
            THEN tout = [is_some |-> TRUE, val |-> [hour |-> tin.hour, minute |-> tin.minute]]
            ELSE tout = [is_some |-> FALSE]
    /\ (tpc = "done" /\ "s" \in DOMAIN tin /\ tout.is_some) =>
            tout.val.hour \in 0..23 /\ tout.val.minute \in 0..59

\* An hour one beyond the last is refused, not made 23.
C29_Witness ==
    /\ tpc = "done"
    /\ tin = [hour |-> 24, minute |-> 0]
    /\ tout = None

\* C30: once quit is handled the loop has halted: no step is taken from a
\* halted dashboard (no frame, no input), the step that halts changes neither
\* the store nor anything a command or a save writes, and filter_main has
\* returned the empty list of intents; Ctrl-C halts from every running state,
\* also while a description is being edited.
C30_QuitHalts ==
    /\ [](dpc = "run" => ENABLED Exit("ctrl-c"))
    /\ [](dpc = "halt" => dret = <<>>)
    /\ [][/\ dpc # "halt"
          /\ dpc' = "halt" =>
                /\ UNCHANGED <<dash_data, events, applied_filters, editing_filter>>
                /\ UNCHANGED <<xvars, avars, mvars, cvars>>]_vars

\* Halted while a description was being edited.
C30_Witness ==
    /\ dpc = "halt"
    /\ Editing
    /\ editing_filter.text # <<>>

\* C31 (as claimed): apply is total over the eight kinds of intent: applying
\* one returns, with success or with an error value, and never aborts the
\* process; every intent other than a replace-event whose index is out of
\* range returns success.
C31_ApplyTotal ==
    [][\A kind \in {"AddCategory", "RenameCategory", "ArchiveCategory", "AddEvent",
                    "ChangeEvent", "AddTag", "TagCategory", "SetDailyNote"} :
          AppliesOne(kind) =>
              /\ apc' \in {"run", "error"}
              /\ ~(kind = "ChangeEvent" /\ delta[1].index >= Len(sd.events))
                    => apc' = "run"]_vars

\* C32: a replace-event whose index is within the events puts the new event at
\* that position and changes nothing else: the number of events, the event at
\* every other position, the categories, the archived categories, the tags,
\* the tag map and the daily notes are as before.
C32_ChangeEventFrame ==
    [][(AppliesOne("ChangeEvent") /\ delta[1].index < Len(sd.events)) =>
          /\ apc' = "run"
          /\ sd' # Panic
          /\ Len(sd'.events) = Len(sd.events)
          /\ sd'.events[delta[1].index + 1] = delta[1].new_event
          /\ \A i \in 1..Len(sd.events) :
                i # delta[1].index + 1 => sd'.events[i] = sd.events[i]
          /\ SameExcept({"events"})]_vars

\* The second of two events was replaced by an event that differs from both.
C32_Witness ==
    /\ apc = "run"
    /\ base = FilledSaveData
    /\ applied = <<ChangeEvent(1, EvSame)>>
    /\ sd.events = <<EvWork, EvSame>>

\* C33: in every dashboard state the header cursor converts to one of the four
\* filter columns, so Enter never fails on the conversion of the cursor,
\* whatever moves left and right came before.
C33_CursorIsAColumn ==
    /\ TryFromUsize(header_highlight) \in {"StartDate", "EndDate", "Category", "Description"}
    /\ dpc # "panic_convert"

\* Enter on the category column, reached by moves to the right, has confirmed
\* a category filter, and the cursor has since gone on to the last column.
C33_Witness ==
    /\ dpc = "run"
    /\ header_highlight = SIZE
    /\ applied_filters # <<>>
    /\ applied_filters[Len(applied_filters)].kind = "Category"

\* Every tag a tag_map entry of the store names is in the store's registry.
TagsRegistered(s) ==
    \A cat \in DOMAIN s.tag_map : \A i \in 1..Len(s.tag_map[cat]) :
        \E k \in 1..Len(s.tags) : s.tags[k] = s.tag_map[cat][i]

\* The dashboard's per-tag totals of a store, no filter set.
TagTotalsOf(s) ==
    tag_sums(category_sums(SortEvents(s.events), <<>>, NoFilter, s.categories.options),
             s.tags, s.tag_map)

\* Each attach-tag applied so far named a tag that the store it started from
\* had registered or that an add-tag applied before it.
AttachedAfterAdd ==
    \A i \in 1..Len(applied) :
        applied[i].kind = "TagCategory" =>
            \/ \E k \in 1..Len(base.tags) : base.tags[k] = applied[i].tag
            \/ \E j \in 1..(i - 1) : applied[j] = AddTag(applied[i].tag)

\* C34 (as claimed): in every store reached from the empty store by any
\* sequence of intents, every tag of a tag_map entry is in the registry, and
\* the per-tag totals of the dashboard do not fail on a missing tag.
C34_TagsAlwaysRegistered ==
    (base = DefaultSaveData /\ sd # Panic) =>
        /\ TagsRegistered(sd)
        /\ TagTotalsOf(sd) # Panic

\* What apply does keep: in every store reached by a sequence of intents in
\* which each attach-tag names a tag that is registered when it is applied,
\* from a store whose tag_map names registered tags only, every tag of a
\* tag_map entry is in the registry and the per-tag totals do not fail.
TagsRegisteredWhenAdded ==
    (TagsRegistered(base) /\ sd # Panic /\ AttachedAfterAdd) =>
        /\ TagsRegistered(sd)
        /\ TagTotalsOf(sd) # Panic

\* From the empty store: a category added, a tag added, then attached.
TagsRegisteredWitness ==
    /\ apc = "run"
    /\ base = DefaultSaveData
    /\ applied = <<AddCategory("a"), AddTag("t"), TagCategory("a", "t")>>
    /\ sd.tag_map["a"] = <<"t">>
    /\ TagTotalsOf(sd) # Panic


====
